---- MODULE Spec2Model ----
(***************************************************************************)
(* Appointment ledger, slot engine and adapter of the scheduling backend.  *)
(*                                                                         *)
(* Times are the "HH:MM" texts the program stores and compares: a text is  *)
(* a sequence of character codes, digits 0..9 and Colon, ordered as their  *)
(* ASCII codes are.  Dates are texts too: a date is the calendar day it    *)
(* parses to together with its spelling (zero-padded or not).              *)
(***************************************************************************)
EXTENDS Integers, Sequences, FiniteSets, TLC

(***************************************************************************)
(* Bounds of the exploration.                                              *)
(***************************************************************************)
\* the ledger holds at most MaxAppts records
MaxAppts == 2

\* cancellation timestamps are written at most MaxStamps times
MaxStamps == 2

\* at most MaxInitializing calls of initialize() wait for the probe at a time
MaxInitializing == 1

(***************************************************************************)
(* Time texts.                                                             *)
(***************************************************************************)
Colon == 10

MinutesPerDay == 1440

\* strftime("%H:%M") of a time of day given in minutes
_time_to_str(m) ==
    LET h == m \div 60
        mi == m % 60
    IN  <<h \div 10, h % 10, Colon, mi \div 10, mi % 10>>

\* value of a one- or two-digit decimal field
DigitsVal(ds) == IF Len(ds) = 1 THEN ds[1] ELSE 10 * ds[1] + ds[2]

\* position of the first colon of a text, 0 when there is none
ColonPos(s) ==
    IF \E k \in 1..Len(s) : s[k] = Colon
    THEN CHOOSE k \in 1..Len(s) : s[k] = Colon /\ \A j \in 1..(k - 1) : s[j] # Colon
    ELSE 0

\* strptime(s, "%H:%M") succeeds: one or two digits, a colon, one or two digits
IsTimeStr(s) ==
    LET k == ColonPos(s)
    IN  /\ k \in 2..3
        /\ Len(s) - k \in 1..2
        /\ \A j \in 1..Len(s) : j # k => s[j] \in 0..9
        /\ DigitsVal(SubSeq(s, 1, k - 1)) \in 0..23
        /\ DigitsVal(SubSeq(s, k + 1, Len(s))) \in 0..59

\* strptime(s, "%H:%M").time() as minutes since midnight
_parse_time(s) ==
    LET k == ColonPos(s)
    IN  60 * DigitsVal(SubSeq(s, 1, k - 1)) + DigitsVal(SubSeq(s, k + 1, Len(s)))

\* datetime(1900,1,1,H,M) + timedelta(minutes), printed with "%H:%M": the day is dropped
_add_minutes_to_time(s, minutes) ==
    _time_to_str((_parse_time(s) + minutes) % MinutesPerDay)

\* Python's str < str : lexicographic on character codes
StrLess(a, b) ==
    \E k \in 1..(Len(a) + 1) :
        /\ k <= Len(b)
        /\ \A j \in 1..(k - 1) : a[j] = b[j]
        /\ (k <= Len(a) => a[k] < b[k])

StrLeq(a, b) == a = b \/ StrLess(a, b)

(***************************************************************************)
(* Date texts.  A date text is the calendar day it parses to (a day        *)
(* number, day 0 a Monday) and its spelling: "2026-01-05" (pad) and        *)
(* "2026-1-5" (not pad) are different texts of the same day.               *)
(***************************************************************************)
Date(day, pad) == [day |-> day, pad |-> pad]

\* datetime.strptime(date_str, "%Y-%m-%d").date()
ParseDate(date_str) == date_str.day

\* date_obj.strftime("%A").lower(), as an index: 0 monday .. 6 sunday
DayName(date_str) == ParseDate(date_str) % 7

\* datetime.now().date()
Today == 1

NoDate == Date(0 - 1, TRUE)
NoTime == <<>>

(***************************************************************************)
(* ScheduleConfig: data/doctor_schedule.json.                              *)
(***************************************************************************)
appointment_slot_duration == 30

Weekday == [start |-> _time_to_str(9 * 60), end |-> _time_to_str(17 * 60),
            lunch |-> [start |-> _time_to_str(12 * 60), end |-> _time_to_str(13 * 60)]]

Closed == [start |-> NoTime, end |-> NoTime, lunch |-> [start |-> NoTime, end |-> NoTime]]

\* working_hours per day name; saturday and sunday are "closed"
working_hours == [d \in 0..6 |-> IF d \in 0..4 THEN Weekday ELSE Closed]

appointment_types ==
    [consultation |-> [duration |-> 30, slots_required |-> 1],
     followup     |-> [duration |-> 15, slots_required |-> 1],
     physical     |-> [duration |-> 45, slots_required |-> 2],
     specialist   |-> [duration |-> 60, slots_required |-> 2]]

\* blocked_dates holds zero-padded date texts
blocked_dates == {Date(3, TRUE)}

(***************************************************************************)
(* SlotEngine.                                                             *)
(***************************************************************************)
\* _get_working_hours: None (here Closed) for a closed or unlisted day
_get_working_hours(date_str) == working_hours[DayName(date_str)]

\* the while loop of _generate_time_slots; times of day are minutes, fuel
\* bounds the iterations explored (a day has 48 half hours: a loop that is
\* still running after them has come back to a time of day it was at)
RECURSIVE SlotLoop(_, _, _, _)
SlotLoop(wh, current_time, slots, fuel) ==
    LET end_time    == _parse_time(wh.end)
        has_lunch   == wh.lunch.start # NoTime
        lunch_start == _parse_time(wh.lunch.start)
        lunch_end   == _parse_time(wh.lunch.end)
        next_time   == (current_time + appointment_slot_duration) % MinutesPerDay
    IN  IF fuel = 0 THEN [slots |-> slots, done |-> FALSE]
        ELSE IF next_time > end_time THEN [slots |-> slots, done |-> TRUE]
        ELSE IF has_lunch /\ ~(current_time >= lunch_end \/ next_time <= lunch_start)
             THEN SlotLoop(wh, lunch_end, slots, fuel - 1)
        ELSE SlotLoop(wh, next_time, Append(slots, _time_to_str(current_time)), fuel - 1)

MaxLoop == 50

_generate_time_slots(wh) == SlotLoop(wh, _parse_time(wh.start), <<>>, MaxLoop).slots

\* CalendlyService._is_slot_available: texts are compared as texts
_is_slot_available(appts, date_str, start_time, slots_required) ==
    \A i \in 0..(slots_required - 1) :
        LET check_time == _add_minutes_to_time(start_time, i * appointment_slot_duration)
        IN  \A k \in 1..Len(appts) :
                (appts[k].date = date_str /\ appts[k].status # "cancelled")
                    => ~(StrLeq(appts[k].start_time, check_time)
                         /\ StrLess(check_time, appts[k].end_time))

\* MockCalendlyAPI._is_slot_available: the same loop without the status test, so
\* cancelled records block as well
Api_is_slot_available(appts, date_str, start_time, slots_required) ==
    \A i \in 0..(slots_required - 1) :
        LET check_time == _add_minutes_to_time(start_time, i * appointment_slot_duration)
        IN  \A k \in 1..Len(appts) :
                (appts[k].date = date_str)
                    => ~(StrLeq(appts[k].start_time, check_time)
                         /\ StrLess(check_time, appts[k].end_time))

\* the slot list of the AvailabilityResponse both get_availability bodies build;
\* of_api says which instance's _is_slot_available is asked
AvailableSlots(of_api, appts, date_str, appt_type) ==
    IF ParseDate(date_str) < Today THEN <<>>
    ELSE IF date_str \in blocked_dates THEN <<>>
    ELSE IF _get_working_hours(date_str) = Closed THEN <<>>
    ELSE LET details == appointment_types[appt_type]
             all_slots == _generate_time_slots(_get_working_hours(date_str))
             Free(slot_time) ==
                 IF of_api
                 THEN Api_is_slot_available(appts, date_str, slot_time, details.slots_required)
                 ELSE _is_slot_available(appts, date_str, slot_time, details.slots_required)
             free_slots == SelectSeq(all_slots, Free)
         IN  [k \in 1..Len(free_slots) |->
                 [start_time |-> free_slots[k],
                  end_time |-> _add_minutes_to_time(free_slots[k], details.duration)]]

\* a _get_availability_mock that answers an unknown type with an empty response
_get_availability_mock_unchecked(appts, date_str, appt_type) ==
    IF appt_type \notin DOMAIN appointment_types
    THEN [error |-> "none", available_slots |-> <<>>]
    ELSE [error |-> "none",
          available_slots |-> AvailableSlots(FALSE, appts, date_str, appt_type)]

\* CalendlyService._get_availability_mock: the ValueError or the response
_get_availability_mock(appts, date_str, appt_type) ==
    IF appt_type \notin DOMAIN appointment_types
    THEN [error |-> "invalid_type", available_slots |-> <<>>]
    ELSE [error |-> "none",
          available_slots |-> AvailableSlots(FALSE, appts, date_str, appt_type)]

\* MockCalendlyAPI.get_availability
Api_get_availability(appts, date_str, appt_type) ==
    IF appt_type \notin DOMAIN appointment_types
    THEN [error |-> "invalid_type", available_slots |-> <<>>]
    ELSE [error |-> "none",
          available_slots |-> AvailableSlots(TRUE, appts, date_str, appt_type)]

(***************************************************************************)
(* Appointment records, identifiers and requests.                          *)
(***************************************************************************)
\* "APPT-<yyyymm>-<nnnn>" (mock path) and "CAL-<uuid8>" (provider path)
BookingId(prefix, num) == [prefix |-> prefix, num |-> num]
NoId == BookingId("", 0)

\* a confirmation-code text: the code it spells and its letter case
Code(code, upper) == [code |-> code, upper |-> upper]
NoCode == Code(0, TRUE)

\* str.upper()
Upper(text) == Code(text.code, TRUE)

Request(appt_type, date_str, start_time, patient, reason) ==
    [appointment_type |-> appt_type, date |-> date_str, start_time |-> start_time,
     patient |-> patient, reason |-> reason]

\* the appointment dict written by the booking paths
Appointment(booking_id, req, end_time, code, source) ==
    [booking_id |-> booking_id,
     appointment_type |-> req.appointment_type,
     date |-> req.date,
     start_time |-> req.start_time,
     end_time |-> end_time,
     patient |-> req.patient,
     reason |-> req.reason,
     confirmation_code |-> code,
     status |-> "confirmed",
     source |-> source,
     cancelled_at |-> 0,
     cancellation_reason |-> "",
     rescheduled_at |-> FALSE,
     previous_date |-> NoDate,
     previous_time |-> NoTime]

\* CalendlyService._generate_booking_id: the number is the ledger length plus one
_generate_booking_id(appts) == BookingId("APPT", Len(appts) + 1)

\* CalendlyService.get_appointment: index of the first record with the id, 0 for None
get_appointment(appts, booking_id) ==
    IF \E k \in 1..Len(appts) : appts[k].booking_id = booking_id
    THEN CHOOSE k \in 1..Len(appts) :
            /\ appts[k].booking_id = booking_id
            /\ \A j \in 1..(k - 1) : appts[j].booking_id # booking_id
    ELSE 0

\* get_appointment_by_confirmation: index of the first record whose code is
\* confirmation_code.upper(), 0 when none
get_appointment_by_confirmation(appts, confirmation_code) ==
    IF \E k \in 1..Len(appts) : appts[k].confirmation_code = Upper(confirmation_code)
    THEN CHOOSE k \in 1..Len(appts) :
            /\ appts[k].confirmation_code = Upper(confirmation_code)
            /\ \A j \in 1..(k - 1) : appts[j].confirmation_code # Upper(confirmation_code)
    ELSE 0

\* _book_appointment_mock with the append moved above the availability check
_book_appointment_mock_append_first(appts, req, code) ==
    IF req.appointment_type \notin DOMAIN appointment_types
    THEN [outcome |-> "invalid_type", appointments |-> appts]
    ELSE IF ~IsTimeStr(req.start_time)
    THEN [outcome |-> "bad_time", appointments |-> appts]
    ELSE LET details == appointment_types[req.appointment_type]
             appended == Append(appts,
                             Appointment(_generate_booking_id(appts), req,
                                         _add_minutes_to_time(req.start_time, details.duration),
                                         code, "mock"))
         IN  IF ~_is_slot_available(appts, req.date, req.start_time, details.slots_required)
             THEN [outcome |-> "slot_unavailable", appointments |-> appended]
             ELSE [outcome |-> "confirmed", appointments |-> appended]

\* CalendlyService._book_appointment_mock: the error raised, or the ledger after the append
_book_appointment_mock(appts, req, code) ==
    IF req.appointment_type \notin DOMAIN appointment_types
    THEN [outcome |-> "invalid_type", appointments |-> appts]
    ELSE IF ~IsTimeStr(req.start_time)
    THEN [outcome |-> "bad_time", appointments |-> appts]
    ELSE LET details == appointment_types[req.appointment_type]
         IN  IF ~_is_slot_available(appts, req.date, req.start_time, details.slots_required)
             THEN [outcome |-> "slot_unavailable", appointments |-> appts]
             ELSE [outcome |-> "confirmed",
                   appointments |-> Append(appts,
                       Appointment(_generate_booking_id(appts), req,
                                   _add_minutes_to_time(req.start_time, details.duration),
                                   code, "mock"))]

\* event_uuid[:8]: a uuid of the provider is a number here, and its last decimal
\* digit stands for the characters after the eighth
uuid8(event_uuid) == event_uuid \div 10

\* CalendlyService._book_appointment_real once the provider has created the
\* event: the local record is appended without a local availability check
_book_appointment_real(appts, req, code, uuid) ==
    LET duration == IF req.appointment_type \in DOMAIN appointment_types
                    THEN appointment_types[req.appointment_type].duration
                    ELSE 30
    IN  [outcome |-> "confirmed",
         appointments |-> Append(appts,
             Appointment(BookingId("CAL", uuid8(uuid)), req,
                         _add_minutes_to_time(req.start_time, duration), code, "calendly"))]

(***************************************************************************)
(* State.                                                                  *)
(***************************************************************************)
VARIABLES
    appointments,       \* calendly_service.appointments, the ledger
    appointments_file,  \* data/appointments.json as last written
    api_appointments,   \* calendly_api.appointments, loaded once at import
    mode,               \* calendly_service.mode
    _initialized,       \* calendly_service._initialized
    is_configured,      \* calendly_client.is_configured
    _event_type_map,    \* the local types that have a provider event type
    initializing,       \* how many initialize() calls wait for the probe's answer
    result,             \* what the last step did, seen from outside: the reply
                        \* its caller received and the provider calls it made
    agent,              \* SchedulingAgent.process_message: its locals and position
    slot_grid,          \* the last call of _generate_time_slots: the working hours
                        \* it was given, the slots it returned, whether it returned
    sessions,           \* chat.sessions: the stored history of each session id
    chat,               \* the /chat request that awaits the agent's reply
    suspended           \* the request handlers suspended at an await, each with
                        \* its locals: the event loop runs one handler at a time
                        \* and changes handler only at an await

\* the state of the scheduling back end
service_vars == <<appointments, appointments_file, api_appointments, mode, _initialized,
                  is_configured, _event_type_map, initializing, result>>

\* the state of the chat endpoint
session_vars == <<sessions, chat>>

vars == <<service_vars, agent, slot_grid, session_vars, suspended>>

\* what process_message returned: the kind of response text and its metadata
Returned(response, iterations, used_tools, tool_calls, error) ==
    [response |-> response, iterations |-> iterations, used_tools |-> used_tools,
     tool_calls |-> tool_calls, error |-> error]

NoReturn == Returned("none", 0, FALSE, <<>>, "none")

\* process_message before its loop: no round run, no model call made; executed
\* holds the names of the tool calls whose results are in messages
AgentStart(pc) ==
    [pc |-> pc, iterations |-> 0, llm_calls |-> 0, tool_calls |-> <<>>, next |-> 1,
     tool_results |-> <<>>, executed |-> {}, returned |-> NoReturn]

\* no call of _generate_time_slots made yet
NoGrid == [wh |-> Closed, slots |-> <<>>, done |-> TRUE]

\* sessions = {}: no session stored
NoSessions == <<>>

\* no /chat request in progress; requested is the session_id of the request
\* ("none" when it had none), session_id the one the handler works with
NoChat == [requested |-> "none", session_id |-> "none", conversation_history |-> <<>>,
           message |-> "none"]

ChatMessage(role, content) == [role |-> role, content |-> content]

LocalTypes == {"consultation", "followup", "physical", "specialist"}

\* what a caller receives: raised is FALSE for a returned value (a tool's dict, a
\* 2xx response) and TRUE for an HTTP error response; booking_id and code are the
\* ones returned or asked for, index the ledger position of a record returned.
\* calls is the number of requests the provider received in the step.
Result(op, booking_id, outcome, raised) ==
    [op |-> op, booking_id |-> booking_id, outcome |-> outcome, raised |-> raised,
     code |-> NoCode, index |-> 0, slots |-> <<>>, calls |-> 0]

\* both module-level instances are constructed at import over the same, absent file
Init ==
    /\ appointments = <<>>
    /\ appointments_file = <<>>
    /\ api_appointments = <<>>
    /\ mode = "mock"
    /\ _initialized = FALSE
    /\ is_configured \in BOOLEAN
    /\ _event_type_map = {}
    /\ initializing = 0
    /\ agent = AgentStart("idle")
    /\ slot_grid = NoGrid
    /\ sessions = NoSessions
    /\ chat = NoChat
    /\ suspended = {}
    /\ result = Result("none", NoId, "none", FALSE)

\* the answers of the provider to the probe (verify_connection) and to the
\* listing of event types (_map_event_types)
ProbeReplies == {"ok", "fail"}
MappingReplies == {"ok", "none", "fail"}

\* CalendlyService.initialize from the probe's answer on: REAL when connected,
\* and then _map_event_types maps every local type when the provider lists an
\* event type and nothing when it lists none or fails, its error being logged only
initialize_after_probe(probe, mapping) ==
    IF probe = "fail" THEN [mode |-> "mock", map |-> _event_type_map, calls |-> 1]
    ELSE [mode |-> "real",
          map |-> IF mapping = "ok" THEN LocalTypes ELSE _event_type_map,
          calls |-> 2]

\* CalendlyService.initialize under the provider's answers: the mode and the
\* event type map it leaves behind and the provider calls it made
initialize_with(probe, mapping) ==
    IF _initialized THEN [mode |-> mode, map |-> _event_type_map, calls |-> 0]
    ELSE IF ~is_configured THEN [mode |-> "mock", map |-> _event_type_map, calls |-> 0]
    ELSE initialize_after_probe(probe, mapping)

\* CalendlyService.initialize: everything it can leave behind
initialize ==
    {initialize_with(probe, mapping) : probe \in ProbeReplies, mapping \in MappingReplies}

\* a book_appointment that lets the provider's error reach the caller
book_appointment_reraise(appts, io, req, reply, code, uuid) ==
    IF io.mode = "real"
    THEN IF req.appointment_type \notin io.map
         THEN [mode |-> "fallback", calls |-> 0] @@ _book_appointment_mock(appts, req, code)
         ELSE IF ~IsTimeStr(req.start_time)
         THEN [mode |-> "real", calls |-> 0, outcome |-> "bad_time", appointments |-> appts]
         ELSE IF reply = "api_error"
         THEN [mode |-> "real", calls |-> 1, outcome |-> "api_error", appointments |-> appts]
         ELSE [mode |-> "real", calls |-> 1] @@ _book_appointment_real(appts, req, code, uuid)
    ELSE [mode |-> io.mode, calls |-> 0] @@ _book_appointment_mock(appts, req, code)

\* CalendlyService.book_appointment after initialize() left (mode, map) = io:
\* in REAL an unmapped type raises the provider's error class before any call,
\* a start time strptime rejects raises ValueError before any call, and a
\* provider error of create_scheduled_event hands the request to the mock path
book_appointment(appts, io, req, reply, code, uuid) ==
    IF io.mode = "real"
    THEN IF req.appointment_type \notin io.map
         THEN [mode |-> "fallback", calls |-> 0] @@ _book_appointment_mock(appts, req, code)
         ELSE IF ~IsTimeStr(req.start_time)
         THEN [mode |-> "real", calls |-> 0, outcome |-> "bad_time", appointments |-> appts]
         ELSE IF reply = "api_error"
         THEN [mode |-> "fallback", calls |-> 1] @@ _book_appointment_mock(appts, req, code)
         ELSE [mode |-> "real", calls |-> 1] @@ _book_appointment_real(appts, req, code, uuid)
    ELSE [mode |-> io.mode, calls |-> 0] @@ _book_appointment_mock(appts, req, code)

\* the booking tool's placeholder and format checks on the patient triple
PatientRejected(patient) == patient \in {"john doe"}

\* the state a call of calendly_service.book_appointment leaves; op names the
\* caller, which raises (POST /book) or returns (the tool) the failure
BookVia(op, raises, req, reply, code, uuid) ==
    \E io \in initialize :
        LET b == book_appointment(appointments, io, req, reply, code, uuid)
        IN  /\ Len(b.appointments) <= MaxAppts
            /\ appointments' = b.appointments
            /\ appointments_file' = IF b.outcome = "confirmed" THEN b.appointments
                                    ELSE appointments_file
            /\ mode' = b.mode
            /\ _initialized' = TRUE
            /\ _event_type_map' = io.map
            /\ result' = IF b.outcome = "confirmed"
                         THEN [Result(op, b.appointments[Len(b.appointments)].booking_id,
                                      "confirmed", FALSE)
                               EXCEPT !.code = code, !.calls = io.calls + b.calls]
                         ELSE [Result(op, NoId, b.outcome, raises)
                               EXCEPT !.calls = io.calls + b.calls]
            /\ UNCHANGED <<api_appointments, is_configured, initializing>>

\* tools.booking_tool.book_appointment
BookTool(req, reply, code, uuid) ==
    IF PatientRejected(req.patient)
    THEN /\ result' = Result("book_tool", NoId, "bad_patient", FALSE)
         /\ UNCHANGED <<appointments, appointments_file, api_appointments, mode,
                        _initialized, is_configured, initializing, _event_type_map>>
    ELSE BookVia("book_tool", FALSE, req, reply, code, uuid)

\* POST /book
BookRest(req, reply, code, uuid) == BookVia("book_rest", TRUE, req, reply, code, uuid)

(***************************************************************************)
(* Book requests that overlap in time.  A handler gives up the event loop  *)
(* only at an await that suspends: in book_appointment that is the         *)
(* provider call of the REAL path (initialize() returns at once when the   *)
(* adapter is initialized, and _book_appointment_mock has no await).       *)
(***************************************************************************)
MaxSuspended == 2

\* the number a handler is known by while it is suspended: the least one free
FreeId == CHOOSE id \in 1..(MaxSuspended + 1) : \A p \in suspended : p.id # id

\* book_appointment up to the await of create_scheduled_event: the handler is in
\* _book_appointment_real, which has found the event type and formatted the time
BookSuspend(op, req) ==
    /\ Cardinality(suspended) < MaxSuspended
    /\ _initialized
    /\ mode = "real"
    /\ op = "book_tool" => ~PatientRejected(req.patient)
    /\ req.appointment_type \in _event_type_map
    /\ IsTimeStr(req.start_time)
    /\ suspended' = suspended \cup {[id |-> FreeId, at |-> "create_scheduled_event",
                                      op |-> op, req |-> req]}
    /\ result' = [Result(op, NoId, "suspended", FALSE) EXCEPT !.calls = 1, !.index = FreeId]
    /\ UNCHANGED <<appointments, appointments_file, api_appointments, mode, _initialized,
                   is_configured, _event_type_map, initializing>>

\* book_appointment from the provider's answer on: the record of the created
\* event is appended without a look at the ledger; a provider error sets
\* FALLBACK and runs _book_appointment_mock, check and append, on the ledger as
\* it is now
BookResume(p, reply, code, uuid) ==
    LET b == IF reply = "api_error"
             THEN [mode |-> "fallback"] @@ _book_appointment_mock(appointments, p.req, code)
             ELSE [mode |-> mode] @@ _book_appointment_real(appointments, p.req, code, uuid)
    IN  /\ p \in suspended
        /\ p.at = "create_scheduled_event"
        /\ Len(b.appointments) <= MaxAppts
        /\ suspended' = suspended \ {p}
        /\ appointments' = b.appointments
        /\ appointments_file' = IF b.outcome = "confirmed" THEN b.appointments
                                ELSE appointments_file
        /\ mode' = b.mode
        /\ result' = IF b.outcome = "confirmed"
                     THEN [Result(p.op, b.appointments[Len(b.appointments)].booking_id,
                                  "confirmed", FALSE)
                           EXCEPT !.code = code, !.index = p.id]
                     ELSE [Result(p.op, NoId, b.outcome, p.op = "book_rest")
                           EXCEPT !.index = p.id]
        /\ UNCHANGED <<api_appointments, _initialized, is_configured, _event_type_map,
                       initializing>>

\* a cancel_appointment that flips the record and returns before saving
cancel_appointment_unsaved(appts, booking_id, reason) ==
    LET k == get_appointment(appts, booking_id)
    IN  IF k = 0 THEN [found |-> FALSE, appointments |-> appts]
        ELSE [found |-> FALSE,
              appointments |-> [appts EXCEPT ![k].status = "cancelled",
                                             ![k].cancelled_at = @ + 1]]

\* CalendlyService.cancel_appointment: the first record with the id is flipped
\* and stamped again, whatever its status was; found is the bool returned.
\* cancelled_at is 0 for a record never stamped and n for the time of the n-th
\* stamp of the record: every datetime.now() read is later than the one before.
cancel_appointment(appts, booking_id, reason) ==
    LET k == get_appointment(appts, booking_id)
    IN  IF k = 0 THEN [found |-> FALSE, appointments |-> appts]
        ELSE [found |-> TRUE,
              appointments |->
                  [appts EXCEPT ![k].status = "cancelled",
                                ![k].cancelled_at = @ + 1,
                                ![k].cancellation_reason =
                                    IF reason # "" THEN reason ELSE @]]

\* tools.booking_tool.cancel_appointment
\* the provider calls of CalendlyService.cancel_appointment: in REAL a record
\* booked through the provider is cancelled there first, and the provider's
\* error is logged and otherwise ignored
cancel_scheduled_event(appts, io, booking_id) ==
    LET k == get_appointment(appts, booking_id)
    IN  IF k # 0 /\ io.mode = "real" /\ appts[k].source = "calendly" THEN 1 ELSE 0

\* the number of cancellation timestamps written so far
RECURSIVE Stamps(_)
Stamps(appts) ==
    IF appts = <<>> THEN 0 ELSE Head(appts).cancelled_at + Stamps(Tail(appts))

CancelTool(booking_id, reply) ==
    \E io \in initialize :
        LET c == cancel_appointment(appointments, booking_id, "")
        IN  /\ Stamps(c.appointments) <= MaxStamps
            /\ appointments' = c.appointments
            /\ appointments_file' = IF c.found THEN c.appointments ELSE appointments_file
            /\ mode' = io.mode
            /\ _initialized' = TRUE
            /\ _event_type_map' = io.map
            /\ result' = [Result("cancel_tool", booking_id,
                                 IF c.found THEN "cancelled" ELSE "not_found", FALSE)
                          EXCEPT !.calls = io.calls
                                     + cancel_scheduled_event(appointments, io, booking_id)]
            /\ UNCHANGED <<api_appointments, is_configured, initializing>>

\* DELETE /cancel/{booking_id}
CancelRest(booking_id, reason, reply) ==
    LET k == get_appointment(appointments, booking_id)
    IN  IF k = 0
        THEN /\ result' = Result("cancel_rest", booking_id, "not_found", TRUE)
             /\ UNCHANGED <<appointments, appointments_file, api_appointments, mode,
                            _initialized, is_configured, initializing, _event_type_map>>
        ELSE IF appointments[k].status = "cancelled"
        THEN /\ result' = Result("cancel_rest", booking_id, "already_cancelled", FALSE)
             /\ UNCHANGED <<appointments, appointments_file, api_appointments, mode,
                            _initialized, is_configured, initializing, _event_type_map>>
        ELSE \E io \in initialize :
             LET c == cancel_appointment(appointments, booking_id, reason)
             IN  /\ Stamps(c.appointments) <= MaxStamps
                 /\ appointments' = c.appointments
                 /\ appointments_file' = c.appointments
                 /\ mode' = io.mode
                 /\ _initialized' = TRUE
                 /\ _event_type_map' = io.map
                 /\ result' = [Result("cancel_rest", booking_id, "cancelled", FALSE)
                               EXCEPT !.calls = io.calls
                                   + cancel_scheduled_event(appointments, io, booking_id)]
                 /\ UNCHANGED <<api_appointments, is_configured, initializing>>

\* reschedule_appointment without the test of the record's status
reschedule_appointment_any_status(appts, booking_id, new_date, new_start_time) ==
    LET k == get_appointment(appts, booking_id)
    IN  IF k = 0 THEN [outcome |-> "not_found", appointments |-> appts]
        ELSE IF ~IsTimeStr(new_start_time)
        THEN [outcome |-> "bad_time", appointments |-> appts]
        ELSE LET details == appointment_types[appts[k].appointment_type]
             IN  IF ~_is_slot_available(appts, new_date, new_start_time, details.slots_required)
                 THEN [outcome |-> "slot_unavailable", appointments |-> appts]
                 ELSE [outcome |-> "rescheduled",
                       appointments |->
                           [appts EXCEPT
                               ![k].date = new_date,
                               ![k].start_time = new_start_time,
                               ![k].end_time =
                                   _add_minutes_to_time(new_start_time, details.duration),
                               ![k].rescheduled_at = TRUE,
                               ![k].previous_date = appts[k].date,
                               ![k].previous_time = appts[k].start_time]]

\* reschedule_appointment reading the old date and time after the overwrite
reschedule_appointment_old_after(appts, booking_id, new_date, new_start_time) ==
    LET k == get_appointment(appts, booking_id)
    IN  IF k = 0 THEN [outcome |-> "not_found", appointments |-> appts]
        ELSE IF appts[k].status = "cancelled"
        THEN [outcome |-> "cannot_reschedule_cancelled", appointments |-> appts]
        ELSE IF ~IsTimeStr(new_start_time)
        THEN [outcome |-> "bad_time", appointments |-> appts]
        ELSE LET details == appointment_types[appts[k].appointment_type]
             IN  IF ~_is_slot_available(appts, new_date, new_start_time, details.slots_required)
                 THEN [outcome |-> "slot_unavailable", appointments |-> appts]
                 ELSE [outcome |-> "rescheduled",
                       appointments |->
                           [appts EXCEPT
                               ![k].date = new_date,
                               ![k].start_time = new_start_time,
                               ![k].end_time =
                                   _add_minutes_to_time(new_start_time, details.duration),
                               ![k].rescheduled_at = TRUE,
                               ![k].previous_date = new_date,
                               ![k].previous_time = new_start_time]]

\* DELETE /appointments/{booking_id}: permanent asks calendly_service for
\* delete_appointment, a method it does not have; the AttributeError becomes the
\* HTTP 500 of the catch-all.  Otherwise the record is cancelled by the service.
DeleteAppointment(booking_id, permanent, reply) ==
    IF permanent
    THEN /\ result' = Result("delete_appointment", booking_id, "server_error", TRUE)
         /\ UNCHANGED <<appointments, appointments_file, api_appointments, mode,
                        _initialized, is_configured, initializing, _event_type_map>>
    ELSE \E io \in initialize :
         LET c == cancel_appointment(appointments, booking_id, "")
         IN  /\ Stamps(c.appointments) <= MaxStamps
             /\ appointments' = c.appointments
             /\ appointments_file' = IF c.found THEN c.appointments ELSE appointments_file
             /\ mode' = io.mode
             /\ _initialized' = TRUE
             /\ _event_type_map' = io.map
             /\ result' = [Result("delete_appointment", booking_id,
                                  IF c.found THEN "cancelled" ELSE "not_found", ~c.found)
                           EXCEPT !.calls = io.calls
                                      + cancel_scheduled_event(appointments, io, booking_id)]
             /\ UNCHANGED <<api_appointments, is_configured, initializing>>

\* the body shared by tools.booking_tool.reschedule_appointment and
\* POST /reschedule/{booking_id}: the outcome and the ledger it leaves
reschedule_appointment(appts, booking_id, new_date, new_start_time) ==
    LET k == get_appointment(appts, booking_id)
    IN  IF k = 0 THEN [outcome |-> "not_found", appointments |-> appts]
        ELSE IF appts[k].status = "cancelled"
        THEN [outcome |-> "cannot_reschedule_cancelled", appointments |-> appts]
        ELSE IF ~IsTimeStr(new_start_time)
        THEN [outcome |-> "bad_time", appointments |-> appts]
        ELSE LET details == appointment_types[appts[k].appointment_type]
             IN  IF ~_is_slot_available(appts, new_date, new_start_time, details.slots_required)
                 THEN [outcome |-> "slot_unavailable", appointments |-> appts]
                 ELSE [outcome |-> "rescheduled",
                       appointments |->
                           [appts EXCEPT
                               ![k].date = new_date,
                               ![k].start_time = new_start_time,
                               ![k].end_time =
                                   _add_minutes_to_time(new_start_time, details.duration),
                               ![k].rescheduled_at = TRUE,
                               ![k].previous_date = appts[k].date,
                               ![k].previous_time = appts[k].start_time]]

\* tools.booking_tool.reschedule_appointment: every failure is a returned dict
RescheduleTool(booking_id, new_date, new_start_time) ==
    LET r == reschedule_appointment(appointments, booking_id, new_date, new_start_time)
    IN  /\ appointments' = r.appointments
        /\ appointments_file' = IF r.outcome = "rescheduled" THEN r.appointments
                                ELSE appointments_file
        /\ result' = Result("reschedule_tool", booking_id, r.outcome, FALSE)
        /\ UNCHANGED <<api_appointments, mode, _initialized, is_configured,
                       initializing, _event_type_map>>

\* POST /reschedule/{booking_id}: every failure is an HTTP error
RescheduleRest(booking_id, new_date, new_time) ==
    LET r == reschedule_appointment(appointments, booking_id, new_date, new_time)
    IN  /\ appointments' = r.appointments
        /\ appointments_file' = IF r.outcome = "rescheduled" THEN r.appointments
                                ELSE appointments_file
        /\ result' = Result("reschedule_rest", booking_id, r.outcome, r.outcome # "rescheduled")
        /\ UNCHANGED <<api_appointments, mode, _initialized, is_configured,
                       initializing, _event_type_map>>

\* GET /appointment/{booking_id}: index is the position of the record returned
GetAppointment(booking_id) ==
    LET k == get_appointment(appointments, booking_id)
    IN  /\ result' = [Result("get_appointment", booking_id,
                             IF k = 0 THEN "not_found" ELSE "found", k = 0)
                      EXCEPT !.index = k]
        /\ UNCHANGED <<appointments, appointments_file, api_appointments, mode,
                       _initialized, is_configured, initializing, _event_type_map>>

\* tools.booking_tool.get_appointment_by_confirmation
GetAppointmentByConfirmation(confirmation_code) ==
    LET k == get_appointment_by_confirmation(appointments, confirmation_code)
    IN  /\ result' = [Result("get_by_confirmation",
                             IF k = 0 THEN NoId ELSE appointments[k].booking_id,
                             IF k = 0 THEN "not_found" ELSE "found", FALSE)
                      EXCEPT !.index = k, !.code = confirmation_code]
        /\ UNCHANGED <<appointments, appointments_file, api_appointments, mode,
                       _initialized, is_configured, initializing, _event_type_map>>

\* CalendlyService.get_availability after initialize() left (mode, map) = io
get_availability(appts, io, date_str, appt_type, reply, provider_slots) ==
    IF io.mode = "real" /\ appt_type \in io.map /\ reply = "ok"
    THEN [mode |-> "real", calls |-> 1, error |-> "none", available_slots |-> provider_slots]
    ELSE [mode |-> IF io.mode = "real" THEN "fallback" ELSE io.mode,
          calls |-> IF io.mode = "real" /\ appt_type \in io.map THEN 1 ELSE 0]
         @@ _get_availability_mock(appts, date_str, appt_type)

\* GET /availability
GetAvailability(date_str, appt_type, reply, provider_slots) ==
    \E io \in initialize :
        LET a == get_availability(appointments, io, date_str, appt_type, reply, provider_slots)
        IN  /\ mode' = a.mode
            /\ _initialized' = TRUE
            /\ _event_type_map' = io.map
            /\ result' = [Result("get_availability", NoId,
                                 IF a.error = "none" THEN "ok" ELSE a.error, a.error # "none")
                          EXCEPT !.slots = a.available_slots, !.calls = io.calls + a.calls]
            /\ UNCHANGED <<appointments, appointments_file, api_appointments,
                           is_configured, initializing>>

\* CalendlyService.get_next_available_dates from day i on: every open day asks
\* get_availability, which leaves REAL at the provider's first error; the
\* provider answers its first oks calls and raises from then on
RECURSIVE get_next_available_dates(_, _, _, _, _, _, _)
get_next_available_dates(appts, io, appt_type, i, num_days, oks, provider_slots) ==
    IF i >= num_days
    THEN [mode |-> io.mode, calls |-> io.calls, error |-> "none",
          available_dates |-> io.available_dates]
    ELSE LET date_str == Date(Today + i, TRUE)
         IN  IF _get_working_hours(date_str) = Closed
             THEN get_next_available_dates(appts, io, appt_type, i + 1, num_days, oks,
                                           provider_slots)
             ELSE LET a == get_availability(appts, io, date_str, appt_type,
                                            IF oks > 0 THEN "ok" ELSE "api_error",
                                            provider_slots)
                  IN  IF a.error # "none"
                      THEN [mode |-> a.mode, calls |-> io.calls + a.calls, error |-> a.error,
                            available_dates |-> <<>>]
                      ELSE get_next_available_dates(
                               appts,
                               [mode |-> a.mode, map |-> io.map, calls |-> io.calls + a.calls,
                                available_dates |->
                                    IF Len(a.available_slots) > 0
                                    THEN Append(io.available_dates, date_str)
                                    ELSE io.available_dates],
                               appt_type, i + 1, num_days,
                               IF a.calls > 0 /\ oks > 0 THEN oks - 1 ELSE oks,
                               provider_slots)

\* GET /availability/next-dates
GetNextAvailableDates(appt_type, days, oks, provider_slots) ==
    \E io \in initialize :
        LET d == get_next_available_dates(appointments, io @@ [available_dates |-> <<>>],
                                          appt_type, 0, days, oks, provider_slots)
        IN  /\ mode' = d.mode
            /\ _initialized' = TRUE
            /\ _event_type_map' = io.map
            /\ result' = [Result("get_next_available_dates", NoId,
                                 IF d.error = "none" THEN "ok" ELSE d.error, d.error # "none")
                          EXCEPT !.slots = d.available_dates, !.calls = d.calls]
            /\ UNCHANGED <<appointments, appointments_file, api_appointments,
                           is_configured, initializing>>

\* GET /status, served without interruption: initialize(), then get_status()
GetStatus(probe, mapping) ==
    LET io == initialize_with(probe, mapping)
    IN  /\ mode' = io.mode
        /\ _initialized' = TRUE
        /\ _event_type_map' = io.map
        /\ result' = [Result("get_status", NoId, io.mode, FALSE) EXCEPT !.calls = io.calls]
        /\ UNCHANGED <<appointments, appointments_file, api_appointments,
                       is_configured, initializing>>

\* GET /status up to the await of verify_connection in initialize(): the call
\* found _initialized false and credentials present, and the probe is sent
StatusAwaitProbe ==
    /\ ~_initialized
    /\ is_configured
    /\ initializing < MaxInitializing
    /\ initializing' = initializing + 1
    /\ result' = [Result("get_status", NoId, "awaiting_probe", FALSE) EXCEPT !.calls = 1]
    /\ UNCHANGED <<appointments, appointments_file, api_appointments, mode,
                   _initialized, is_configured, _event_type_map>>

\* GET /status from the probe's answer on: initialize() does not read
\* _initialized or mode again before it writes them
StatusResume(probe, mapping) ==
    /\ initializing > 0
    /\ LET io == initialize_after_probe(probe, mapping)
       IN  /\ mode' = io.mode
           /\ _initialized' = TRUE
           /\ _event_type_map' = io.map
           /\ initializing' = initializing - 1
           /\ result' = [Result("get_status", NoId, io.mode, FALSE)
                         EXCEPT !.calls = io.calls - 1]
    /\ UNCHANGED <<appointments, appointments_file, api_appointments, is_configured>>

\* tools.availability_tool.check_availability: asks calendly_api, not calendly_service
CheckAvailabilityTool(date_str, appt_type) ==
    LET a == Api_get_availability(api_appointments, date_str, appt_type)
    IN  /\ result' = [Result("check_availability_tool", NoId,
                             IF a.error = "none" THEN "ok" ELSE a.error, FALSE)
                      EXCEPT !.slots = a.available_slots]
        /\ UNCHANGED <<appointments, appointments_file, api_appointments, mode,
                       _initialized, is_configured, initializing, _event_type_map>>

\* MockCalendlyAPI.get_next_available_dates from day i on; dates holds the days
\* found so far
RECURSIVE Api_get_next_available_dates(_, _, _, _, _)
Api_get_next_available_dates(appts, appt_type, i, num_days, dates) ==
    IF i >= num_days THEN [error |-> "none", available_dates |-> dates]
    ELSE LET date_str == Date(Today + i, TRUE)
         IN  IF _get_working_hours(date_str) = Closed
             THEN Api_get_next_available_dates(appts, appt_type, i + 1, num_days, dates)
             ELSE LET a == Api_get_availability(appts, date_str, appt_type)
                  IN  IF a.error # "none"
                      THEN [error |-> a.error, available_dates |-> <<>>]
                      ELSE Api_get_next_available_dates(
                               appts, appt_type, i + 1, num_days,
                               IF Len(a.available_slots) > 0 THEN Append(dates, date_str)
                               ELSE dates)

\* tools.availability_tool.get_next_available_slots: asks calendly_api as well
GetNextAvailableSlotsTool(appt_type, num_days) ==
    LET d == Api_get_next_available_dates(api_appointments, appt_type, 0, num_days, <<>>)
    IN  /\ result' = [Result("get_next_available_slots_tool", NoId,
                             IF d.error = "none" THEN "ok" ELSE d.error, FALSE)
                      EXCEPT !.slots = d.available_dates]
        /\ UNCHANGED <<appointments, appointments_file, api_appointments, mode,
                       _initialized, is_configured, initializing, _event_type_map>>

(***************************************************************************)
(* ConversationOrchestrator: SchedulingAgent.process_message.              *)
(***************************************************************************)
\* SchedulingAgent.tools: the names of AVAILABILITY_TOOLS + BOOKING_TOOLS, the
\* schema every model call of the loop offers
tools ==
    {"check_availability", "get_next_available_slots", "book_appointment",
     "get_appointment_by_confirmation", "cancel_appointment", "reschedule_appointment"}

\* SchedulingAgent.tool_functions: the names that have a handler
tool_functions == {"check_availability", "get_next_available_slots", "book_appointment"}

max_iterations == 5

\* a tool call of a model reply; well_formed says whether its arguments bind to
\* the handler's parameters (func(**arguments) raises TypeError otherwise)
ToolCall(id, name, well_formed) == [id |-> id, name |-> name, well_formed |-> well_formed]

\* the while condition of process_message
loop_continues_always(iterations) == TRUE

loop_continues(iterations) == iterations < max_iterations

\* an _execute_tool without its try/except around the handler
_execute_tool_propagates(tool_name, well_formed) ==
    IF tool_name \notin tool_functions THEN "error"
    ELSE IF ~well_formed THEN "raise"
    ELSE "call"

\* SchedulingAgent._execute_tool up to the handler's body: the {"error": ...}
\* payload for an unknown name and for an exception of the call, else the call
_execute_tool(tool_name, well_formed) ==
    IF tool_name \notin tool_functions THEN "error"
    ELSE IF ~well_formed THEN "error"
    ELSE "call"

\* process_message up to the first model call of its loop
ProcessMessage ==
    /\ agent.pc = "idle"
    /\ agent' = AgentStart("call_llm")
    /\ UNCHANGED service_vars

\* one pass of the loop up to the model's reply to the call with the tool
\* schema: a reply without tool calls is returned, one with tool calls has its
\* assistant turn appended by _handle_tool_calls
CallLLM(tool_calls) ==
    /\ agent.pc = "call_llm"
    /\ agent' = IF tool_calls = <<>>
                THEN [agent EXCEPT !.pc = "idle",
                                   !.iterations = @ + 1,
                                   !.llm_calls = @ + 1,
                                   !.returned = Returned("content", agent.iterations + 1,
                                                         FALSE, <<>>, "none")]
                ELSE [agent EXCEPT !.pc = "tools",
                                   !.iterations = @ + 1,
                                   !.llm_calls = @ + 1,
                                   !.tool_calls = tool_calls,
                                   !.next = 1,
                                   !.tool_results = <<>>]
    /\ UNCHANGED service_vars

\* a loop over the tool calls that takes them last to first
next_tool_call_reversed(tool_calls, next) == tool_calls[Len(tool_calls) + 1 - next]

\* "for tool_call in tool_calls": the call the loop of _handle_tool_calls takes
\* in its next-th pass
next_tool_call(tool_calls, next) == tool_calls[next]

\* _handle_tool_calls for the next tool call of the reply: _execute_tool and the
\* tool result turn appended for it.  The arguments of a well-formed call are
\* the action's parameters.
ExecuteTool(req, reply, code, uuid, date_str, appt_type, num_days) ==
    LET tool_call == next_tool_call(agent.tool_calls, agent.next)
        outcome == _execute_tool(tool_call.name, tool_call.well_formed)
        Appended(content) ==
            [agent EXCEPT !.tool_results = Append(@, [tool_call_id |-> tool_call.id,
                                                      content |-> content]),
                          !.executed = @ \cup {tool_call.name},
                          !.next = @ + 1,
                          !.pc = IF agent.next = Len(agent.tool_calls)
                                 THEN "wrap_up" ELSE "tools"]
    IN  /\ agent.pc = "tools"
        /\ IF outcome = "raise"
           THEN /\ agent' = [agent EXCEPT !.pc = "idle",
                                          !.returned = Returned("exception", agent.iterations,
                                                                FALSE, <<>>, "none")]
                /\ UNCHANGED service_vars
           ELSE IF outcome = "error"
           THEN /\ agent' = Appended("error")
                /\ UNCHANGED service_vars
           ELSE IF tool_call.name = "book_appointment"
           THEN /\ BookTool(req, reply, code, uuid)
                /\ agent' = Appended(IF result'.outcome = "confirmed"
                                     THEN "success" ELSE "failure")
           ELSE IF tool_call.name = "check_availability"
           THEN /\ CheckAvailabilityTool(date_str, appt_type)
                /\ agent' = Appended(IF result'.outcome = "ok" THEN "success" ELSE "failure")
           ELSE /\ GetNextAvailableSlotsTool(appt_type, num_days)
                /\ agent' = Appended(IF result'.outcome = "ok" THEN "success" ELSE "failure")

\* the model's reply to the call without tool schema: returned when it has no
\* tool calls; otherwise the loop goes on while its condition holds, and the
\* apology is returned after it
WrapUp(tool_calls) ==
    /\ agent.pc = "wrap_up"
    /\ agent' = IF tool_calls = <<>>
                THEN [agent EXCEPT !.pc = "idle",
                                   !.llm_calls = @ + 1,
                                   !.returned =
                                       Returned("content", agent.iterations, TRUE,
                                                [k \in 1..Len(agent.tool_calls) |->
                                                     agent.tool_calls[k].name],
                                                "none")]
                ELSE IF loop_continues(agent.iterations)
                THEN [agent EXCEPT !.pc = "call_llm", !.llm_calls = @ + 1]
                ELSE [agent EXCEPT !.pc = "idle",
                                   !.llm_calls = @ + 1,
                                   !.returned = Returned("apology", agent.iterations, FALSE,
                                                         <<>>, "max_iterations_reached")]
    /\ UNCHANGED service_vars

\* the server process is started again: both module-level instances are
\* constructed anew and load the file, the agent and the sessions start empty
Restart ==
    /\ appointments' = appointments_file
    /\ api_appointments' = appointments_file
    /\ mode' = "mock"
    /\ _initialized' = FALSE
    /\ _event_type_map' = {}
    /\ initializing' = 0
    /\ agent' = AgentStart("idle")
    /\ slot_grid' = NoGrid
    /\ sessions' = NoSessions
    /\ chat' = NoChat
    /\ suspended' = {}
    /\ result' = Result("restart", NoId, "none", FALSE)
    /\ UNCHANGED <<appointments_file, is_configured>>

(***************************************************************************)
(* The chat endpoint.                                                      *)
(***************************************************************************)
MaxHistory == 4

\* POST /chat up to the await of agent.process_message: the session is looked
\* up or created, under the request's id or under a fresh uuid4, and the turn
\* runs on the request's history when it has one, else on the stored one
ChatReceive(session_id, fresh, message, conversation_history) ==
    LET sid == IF session_id = "none" THEN fresh ELSE session_id
        created == IF sid \in DOMAIN sessions THEN sessions ELSE sessions @@ (sid :> <<>>)
        history == IF conversation_history # <<>> THEN conversation_history
                   ELSE created[sid]
    IN  /\ chat = NoChat
        /\ fresh \notin DOMAIN sessions
        /\ Len(history) + 2 <= MaxHistory
        /\ ProcessMessage
        /\ sessions' = created
        /\ chat' = [requested |-> session_id, session_id |-> sid,
                    conversation_history |-> history, message |-> message]
        /\ UNCHANGED <<slot_grid, suspended>>

\* POST /chat from the return of agent.process_message on: the history the turn
\* ran on, the user message and the reply are written to the session dict
\* fetched before the await and returned; an exception of the agent is a 500
ChatRespond ==
    LET reply == agent.returned.response
        updated_history == chat.conversation_history
                               \o <<ChatMessage("user", chat.message),
                                    ChatMessage("assistant", reply)>>
    IN  /\ chat # NoChat
        /\ agent.pc = "idle"
        /\ IF reply = "exception"
           THEN /\ result' = Result("chat", NoId, "server_error", TRUE)
                           @@ [session_id |-> chat.session_id, conversation_history |-> <<>>]
                /\ UNCHANGED sessions
           ELSE /\ result' = Result("chat", NoId, reply, FALSE)
                           @@ [session_id |-> chat.session_id,
                               conversation_history |-> updated_history]
                /\ sessions' = IF chat.session_id \in DOMAIN sessions
                               THEN [sessions EXCEPT ![chat.session_id] = updated_history]
                               ELSE sessions
        /\ chat' = NoChat
        /\ UNCHANGED <<appointments, appointments_file, api_appointments, mode, _initialized,
                       is_configured, _event_type_map, initializing, agent, slot_grid,
                       suspended>>

\* a save that writes the updated history to every session of the dict
save_session_everywhere(store, session_id, updated_history) ==
    [sid \in DOMAIN store |-> updated_history]

\* session["conversation_history"] = [...]: the write goes to the dict fetched
\* before the await, which is the stored one unless the session was cleared
save_session(store, session_id, updated_history) ==
    IF session_id \in DOMAIN store
    THEN [store EXCEPT ![session_id] = updated_history]
    ELSE store

\* POST /chat up to the await of agent.process_message, for requests that
\* overlap in time: the handler is suspended with the history it read
ChatSuspend(session_id, fresh, message, conversation_history) ==
    LET sid == IF session_id = "none" THEN fresh ELSE session_id
        created == IF sid \in DOMAIN sessions THEN sessions ELSE sessions @@ (sid :> <<>>)
        history == IF conversation_history # <<>> THEN conversation_history
                   ELSE created[sid]
    IN  /\ Cardinality(suspended) < MaxSuspended
        /\ fresh \notin DOMAIN sessions
        /\ Len(history) + 2 <= MaxHistory
        /\ sessions' = created
        /\ suspended' = suspended \cup {[id |-> FreeId, at |-> "process_message",
                                          op |-> "chat", session_id |-> sid,
                                          conversation_history |-> history,
                                          message |-> message]}
        /\ result' = [Result("chat", NoId, "suspended", FALSE) EXCEPT !.index = FreeId]
                          @@ [session_id |-> sid, conversation_history |-> history,
                              replaced |-> <<>>]
        /\ UNCHANGED <<appointments, appointments_file, api_appointments, mode, _initialized,
                       is_configured, _event_type_map, initializing, agent, slot_grid, chat>>

\* POST /chat from the return of agent.process_message on, for a suspended
\* handler: the history it read, its message and the reply are saved over
\* whatever the session holds by now; replaced is what the save wrote over
ChatResume(p, reply) ==
    LET updated_history == p.conversation_history
                               \o <<ChatMessage("user", p.message),
                                    ChatMessage("assistant", reply)>>
    IN  /\ p \in suspended
        /\ p.at = "process_message"
        /\ suspended' = suspended \ {p}
        /\ IF reply = "exception"
           THEN /\ result' = [Result("chat", NoId, "server_error", TRUE) EXCEPT !.index = p.id]
                                 @@ [session_id |-> p.session_id,
                                     conversation_history |-> <<>>, replaced |-> <<>>]
                /\ UNCHANGED sessions
           ELSE /\ result' = [Result("chat", NoId, reply, FALSE) EXCEPT !.index = p.id]
                                 @@ [session_id |-> p.session_id,
                                     conversation_history |-> updated_history,
                                     replaced |-> IF p.session_id \in DOMAIN sessions
                                                  THEN sessions[p.session_id] ELSE <<>>]
                /\ sessions' = save_session(sessions, p.session_id, updated_history)
        /\ UNCHANGED <<appointments, appointments_file, api_appointments, mode, _initialized,
                       is_configured, _event_type_map, initializing, agent, slot_grid, chat>>

\* DELETE /chat/{session_id}
ClearSession(session_id) ==
    /\ sessions' = [sid \in DOMAIN sessions \ {session_id} |-> sessions[sid]]
    /\ result' = Result("clear_session", NoId, "ok", FALSE)
    /\ UNCHANGED <<appointments, appointments_file, api_appointments, mode, _initialized,
                   is_configured, _event_type_map, initializing, agent, slot_grid, chat,
                   suspended>>

\* CalendlyService._generate_time_slots for a day with the working hours wh: the
\* list it returns, or no return within the iterations explored
GenerateTimeSlots(wh) ==
    LET loop == SlotLoop(wh, _parse_time(wh.start), <<>>, MaxLoop)
    IN  /\ slot_grid' = [wh |-> wh, slots |-> loop.slots, done |-> loop.done]
        /\ UNCHANGED <<service_vars, agent, session_vars, suspended>>

(***************************************************************************)
(* The requests explored.  A specification explores the operations over a  *)
(* small set of inputs, given as a record:                                 *)
(*   requests (booking requests), targets (the (date, time) pairs of the   *)
(*   reschedule requests and of the availability queries), types, reasons  *)
(*   (of DELETE /cancel), codes (the confirmation codes random.choices may *)
(*   draw), uuids (the provider's), replies (the provider's), slots (the   *)
(*   provider's availability).                                             *)
(***************************************************************************)
T(h, m) == _time_to_str(60 * h + m)

\* "9:30": accepted by strptime, not zero-padded
Unpadded0930 == <<9, Colon, 3, 0>>

\* an open day, a later open day, a blocked day
OpenDay == Date(2, TRUE)
LaterDay == Date(4, TRUE)
BlockedDay == Date(3, TRUE)

\* the ids of the ledger and one id that is in no ledger
IdInputs == {appointments[k].booking_id : k \in 1..Len(appointments)} \cup {BookingId("APPT", 99)}

Books(in) ==
    \/ \E req \in in.requests, reply \in in.replies, code \in in.codes, uuid \in in.uuids :
            BookTool(req, reply, code, uuid) /\ UNCHANGED <<agent, slot_grid, session_vars, suspended>>
    \/ \E req \in in.requests, reply \in in.replies, code \in in.codes, uuid \in in.uuids :
            BookRest(req, reply, code, uuid) /\ UNCHANGED <<agent, slot_grid, session_vars, suspended>>

Cancels(in) ==
    \/ \E b \in IdInputs, reply \in in.replies : CancelTool(b, reply) /\ UNCHANGED <<agent, slot_grid, session_vars, suspended>>
    \/ \E b \in IdInputs, why \in in.reasons, reply \in in.replies :
            CancelRest(b, why, reply) /\ UNCHANGED <<agent, slot_grid, session_vars, suspended>>

Deletes(in) ==
    \E b \in IdInputs, permanent \in BOOLEAN, reply \in in.replies :
        DeleteAppointment(b, permanent, reply) /\ UNCHANGED <<agent, slot_grid, session_vars, suspended>>

NextDates(in) ==
    \E t \in in.types, days \in in.days, oks \in 0..2, ps \in in.slots :
        GetNextAvailableDates(t, days, oks, ps) /\ UNCHANGED <<agent, slot_grid, session_vars, suspended>>

Statuses(in) ==
    \E probe \in ProbeReplies, mapping \in MappingReplies :
        GetStatus(probe, mapping) /\ UNCHANGED <<agent, slot_grid, session_vars, suspended>>

Overlaps(in) ==
    \/ (StatusAwaitProbe /\ UNCHANGED <<agent, slot_grid, session_vars, suspended>>)
    \/ \E probe \in ProbeReplies, mapping \in MappingReplies :
            StatusResume(probe, mapping) /\ UNCHANGED <<agent, slot_grid, session_vars, suspended>>

Turns(in) ==
    \/ (ProcessMessage /\ UNCHANGED <<slot_grid, session_vars, suspended>>)
    \/ \E tool_calls \in in.llm_replies :
            CallLLM(tool_calls) /\ UNCHANGED <<slot_grid, session_vars, suspended>>
    \/ \E req \in in.requests, reply \in in.replies, code \in in.codes, uuid \in in.uuids,
          to \in in.targets, t \in in.types, days \in in.days :
            ExecuteTool(req, reply, code, uuid, to[1], t, days)
                /\ UNCHANGED <<slot_grid, session_vars, suspended>>
    \/ \E tool_calls \in in.llm_replies :
            WrapUp(tool_calls) /\ UNCHANGED <<slot_grid, session_vars, suspended>>

Chats(in) ==
    \/ \E session_id \in in.session_ids \cup {"none"}, fresh \in in.fresh_ids,
          message \in in.messages, history \in in.histories :
            ChatReceive(session_id, fresh, message, history)
    \/ \E tool_calls \in in.llm_replies :
            CallLLM(tool_calls) /\ UNCHANGED <<slot_grid, session_vars, suspended>>
    \/ \E req \in in.requests, reply \in in.replies, code \in in.codes, uuid \in in.uuids,
          to \in in.targets, t \in in.types, days \in in.days :
            ExecuteTool(req, reply, code, uuid, to[1], t, days)
                /\ UNCHANGED <<slot_grid, session_vars, suspended>>
    \/ \E tool_calls \in in.llm_replies :
            WrapUp(tool_calls) /\ UNCHANGED <<slot_grid, session_vars, suspended>>
    \/ ChatRespond
    \/ \E session_id \in in.session_ids \cup in.fresh_ids : ClearSession(session_id)

Races(in) ==
    \/ \E op \in {"book_tool", "book_rest"}, req \in in.requests :
            BookSuspend(op, req) /\ UNCHANGED <<agent, slot_grid, session_vars>>
    \/ \E p \in suspended, reply \in in.replies, code \in in.codes, uuid \in in.uuids :
            BookResume(p, reply, code, uuid) /\ UNCHANGED <<agent, slot_grid, session_vars>>

Talks(in) ==
    \/ \E session_id \in in.session_ids \cup {"none"}, fresh \in in.fresh_ids,
          message \in in.messages, history \in in.histories :
            ChatSuspend(session_id, fresh, message, history)
    \/ \E p \in suspended, reply \in in.chat_replies : ChatResume(p, reply)

Grids(in) ==
    \E wh \in in.hours : GenerateTimeSlots(wh)

Reschedules(in) ==
    \/ \E b \in IdInputs, to \in in.targets : RescheduleTool(b, to[1], to[2]) /\ UNCHANGED <<agent, slot_grid, session_vars, suspended>>
    \/ \E b \in IdInputs, to \in in.targets : RescheduleRest(b, to[1], to[2]) /\ UNCHANGED <<agent, slot_grid, session_vars, suspended>>

Lookups(in) ==
    \/ \E b \in IdInputs : GetAppointment(b) /\ UNCHANGED <<agent, slot_grid, session_vars, suspended>>
    \/ \E c \in in.codes, upper \in BOOLEAN :
            GetAppointmentByConfirmation(Code(c.code, upper)) /\ UNCHANGED <<agent, slot_grid, session_vars, suspended>>

Availabilities(in) ==
    \/ \E to \in in.targets, t \in in.types, reply \in in.replies, ps \in in.slots :
            GetAvailability(to[1], t, reply, ps) /\ UNCHANGED <<agent, slot_grid, session_vars, suspended>>
    \/ \E to \in in.targets, t \in in.types :
            CheckAvailabilityTool(to[1], t) /\ UNCHANGED <<agent, slot_grid, session_vars, suspended>>

\* a 45-minute type and an unknown type at two adjacent grid times, once with a
\* patient the booking tool rejects; the provider answers or fails
SlotInputs ==
    [requests |-> {Request(t, OpenDay, s, "Asha Rao", "checkup") :
                       t \in {"physical", "dental"}, s \in {T(10, 0), T(10, 30)}}
                  \cup {Request("physical", OpenDay, T(10, 0), "john doe", "checkup")},
     targets  |-> {<<OpenDay, T(10, 0)>>, <<OpenDay, T(10, 30)>>},
     types    |-> {"physical"},
     reasons  |-> {""},
     codes    |-> {Code(1, TRUE)},
     uuids    |-> {7},
     replies  |-> {"ok", "api_error"},
     slots    |-> {<<>>}]

\* a 45-minute appointment, moved to another day or to another time of the day
MoveInputs ==
    [requests |-> {Request("physical", OpenDay, T(10, 0), "Asha Rao", "checkup")},
     targets  |-> {<<LaterDay, T(10, 0)>>, <<OpenDay, T(11, 0)>>},
     types    |-> {"physical"},
     reasons  |-> {""},
     codes    |-> {Code(1, TRUE)},
     uuids    |-> {7},
     replies  |-> {"ok"},
     slots    |-> {<<>>}]

\* one type on an open and on a blocked day, at a grid time and off the grid
GridInputs ==
    [requests |-> {Request("consultation", d, s, "Asha Rao", "checkup") :
                       d \in {OpenDay, BlockedDay}, s \in {T(10, 0), T(9, 45)}},
     targets  |-> {OpenDay, BlockedDay} \X {T(10, 0), T(9, 45)},
     types    |-> {"consultation"},
     reasons  |-> {"conflict"},
     codes    |-> {Code(1, TRUE)},
     uuids    |-> {7},
     replies  |-> {"ok"},
     slots    |-> {<<>>}]

\* one open day, a zero-padded and an unpadded time text
TextInputs ==
    [requests |-> {Request("consultation", OpenDay, s, "Asha Rao", "checkup") :
                       s \in {T(10, 0), Unpadded0930}},
     targets  |-> {OpenDay} \X {T(10, 0), Unpadded0930},
     types    |-> {"consultation", "physical"},
     reasons  |-> {""},
     codes    |-> {Code(1, TRUE)},
     uuids    |-> {7},
     replies  |-> {"ok"},
     slots    |-> {<<>>}]

\* two bookable times, two confirmation codes in both letter cases
CodeInputs ==
    [requests |-> {Request("consultation", OpenDay, s, "Asha Rao", "checkup") :
                       s \in {T(10, 0), T(10, 30)}},
     targets  |-> {<<OpenDay, T(10, 0)>>},
     types    |-> {"consultation"},
     reasons  |-> {""},
     codes    |-> {Code(1, TRUE), Code(2, TRUE)},
     uuids    |-> {7},
     replies  |-> {"ok"},
     slots    |-> {<<>>}]

\* no provider credentials: the adapter stays in mock mode
RealInputs ==
    [requests |-> {Request("consultation", OpenDay, s, "Asha Rao", "checkup") :
                       s \in {T(10, 0), T(10, 30)}},
     targets  |-> {<<OpenDay, T(10, 0)>>},
     types    |-> {"consultation"},
     days     |-> {2},
     reasons  |-> {""},
     codes    |-> {Code(1, TRUE)},
     uuids    |-> {7},
     replies  |-> {"ok", "api_error"},
     slots    |-> {<<>>, <<T(10, 0)>>}]

\* model replies without tool calls, with one and with two, among them a name
\* offered in the tool schema but not registered and a call whose arguments do
\* not bind
AgentInputs ==
    [requests |-> {Request(t, OpenDay, T(10, 0), "Asha Rao", "checkup") :
                       t \in {"consultation", "dental"}},
     targets  |-> {<<OpenDay, T(10, 0)>>},
     types    |-> {"consultation"},
     days     |-> {2},
     reasons  |-> {""},
     codes    |-> {Code(1, TRUE)},
     uuids    |-> {7},
     replies  |-> {"ok"},
     slots    |-> {<<>>},
     llm_replies |-> {<<>>,
                      <<ToolCall(1, "book_appointment", TRUE)>>,
                      <<ToolCall(1, "check_availability", TRUE),
                        ToolCall(2, "get_next_available_slots", TRUE)>>,
                      <<ToolCall(1, "cancel_appointment", TRUE),
                        ToolCall(2, "book_appointment", FALSE)>>}]

\* working hours with and without lunch, aligned or not with the half-hour
\* grid, closing in the afternoon and late in the evening
HoursInputs ==
    [hours |->
        {wh \in [start : {T(8, 0), T(9, 0), T(9, 15), T(12, 30), T(22, 0)},
                 end : {T(12, 0), T(17, 0), T(17, 10), T(23, 0), T(23, 30), T(23, 45)},
                 lunch : {[start |-> NoTime, end |-> NoTime],
                          [start |-> T(12, 0), end |-> T(13, 0)],
                          [start |-> T(12, 15), end |-> T(12, 45)],
                          [start |-> T(11, 50), end |-> T(12, 20)],
                          [start |-> T(16, 30), end |-> T(17, 30)]}] :
            _parse_time(wh.start) < _parse_time(wh.end)}]

\* a past day, a blocked day, a closed day and an open day, asked for with a
\* catalog type and with a type that is in no catalog
PastDay == Date(0, TRUE)
ClosedDay == Date(5, TRUE)

DateInputs ==
    [requests |-> {Request(t, d, T(10, 0), "Asha Rao", "checkup") :
                       t \in {"consultation", "dental"}, d \in {BlockedDay, OpenDay}},
     targets  |-> {PastDay, BlockedDay, ClosedDay, OpenDay} \X {T(10, 0)},
     types    |-> {"consultation", "dental"},
     reasons  |-> {""},
     codes    |-> {Code(1, TRUE)},
     uuids    |-> {7},
     replies  |-> {"ok", "api_error"},
     slots    |-> {<<>>, <<T(10, 0)>>}]

\* two bookable times and two events of the provider whose uuids differ after
\* the eighth character
IdsInputs ==
    [requests |-> {Request("consultation", OpenDay, s, "Asha Rao", "checkup") :
                       s \in {T(10, 0), T(10, 30)}},
     targets  |-> {<<OpenDay, T(11, 0)>>},
     types    |-> {"consultation"},
     reasons  |-> {""},
     codes    |-> {Code(1, TRUE)},
     uuids    |-> {70, 71},
     replies  |-> {"ok", "api_error"},
     slots    |-> {<<>>}]

\* chat requests with and without a session id and with and without a history
\* of their own; the model answers with or without a tool call
ChatInputs ==
    [requests |-> {Request("consultation", OpenDay, T(10, 0), "Asha Rao", "checkup")},
     targets  |-> {<<OpenDay, T(10, 0)>>},
     types    |-> {"consultation"},
     days     |-> {2},
     reasons  |-> {""},
     codes    |-> {Code(1, TRUE)},
     uuids    |-> {70},
     replies  |-> {"ok"},
     slots    |-> {<<>>},
     llm_replies |-> {<<>>, <<ToolCall(1, "book_appointment", TRUE)>>},
     session_ids |-> {"test-session-123"},
     fresh_ids   |-> {"uuid-1", "uuid-2"},
     messages    |-> {"I need an appointment"},
     histories   |-> {<<>>, <<ChatMessage("user", "Hello"),
                             ChatMessage("assistant", "Hi there!")>>}]

\* one appointment that can be booked, moved and cancelled
SaveInputs ==
    [requests |-> {Request("consultation", OpenDay, T(10, 0), "Asha Rao", "checkup")},
     targets  |-> {<<LaterDay, T(10, 0)>>},
     types    |-> {"consultation"},
     reasons  |-> {""},
     codes    |-> {Code(1, TRUE)},
     uuids    |-> {70},
     replies  |-> {"ok"},
     slots    |-> {<<>>}]

\* requests for one slot, from two patients, with a provider that answers or
\* fails
RaceInputs ==
    [requests |-> {Request("consultation", OpenDay, T(10, 0), patient, "checkup") :
                       patient \in {"Asha Rao", "Ben Ito"}},
     targets  |-> {<<OpenDay, T(10, 0)>>},
     types    |-> {"consultation"},
     reasons  |-> {""},
     codes    |-> {Code(1, TRUE)},
     uuids    |-> {70},
     replies  |-> {"ok", "api_error"},
     slots    |-> {<<>>}]

\* chat requests for two sessions and for new ones, with and without a history
\* of their own, answered or failed by the agent
TalkInputs ==
    [session_ids  |-> {"session-a", "session-b"},
     fresh_ids    |-> {"uuid-1"},
     messages     |-> {"first", "second"},
     histories    |-> {<<>>},
     chat_replies |-> {"Sure", "exception"}]

\* one type at a time of the working day and at a quarter to midnight
LateInputs ==
    [requests |-> {Request("consultation", OpenDay, s, "Asha Rao", "checkup") :
                       s \in {T(10, 0), T(23, 45)}},
     targets  |-> {LaterDay} \X {T(10, 0), T(23, 45)},
     types    |-> {"consultation"},
     reasons  |-> {""},
     codes    |-> {Code(1, TRUE)},
     uuids    |-> {7},
     replies  |-> {"ok"},
     slots    |-> {<<>>}]

InitMock == Init /\ ~is_configured

\* book, cancel and reschedule in every adapter mode
Next == Books(SlotInputs) \/ Cancels(SlotInputs) \/ Reschedules(SlotInputs)

Spec == Init /\ [][Next]_vars

\* appointments moved between days and times
NextMove == Books(MoveInputs) \/ Cancels(MoveInputs) \/ Reschedules(MoveInputs)

SpecMove == InitMock /\ [][NextMove]_vars

\* dates and times the slot grid does not offer
NextGrid == Books(GridInputs) \/ Cancels(GridInputs) \/ Reschedules(GridInputs)

SpecGrid == InitMock /\ [][NextGrid]_vars

\* time texts that are not zero-padded, with the availability queries
NextText == Books(TextInputs) \/ Reschedules(TextInputs) \/ Availabilities(TextInputs)

SpecText == InitMock /\ [][NextText]_vars

\* the tools of one process: booking, cancelling, checking availability
NextTools == Books(CodeInputs) \/ Cancels(CodeInputs) \/ Availabilities(CodeInputs)

SpecTools == InitMock /\ [][NextTools]_vars

\* the adapter with and without credentials, over the provider's answers
NextReal ==
    \/ Books(RealInputs)
    \/ Cancels(RealInputs)
    \/ Availabilities(RealInputs)
    \/ NextDates(RealInputs)
    \/ Statuses(RealInputs)

SpecReal == Init /\ [][NextReal]_vars

\* requests served while calls of initialize() wait for the probe's answer
InitReal == Init /\ is_configured

NextLatch == Books(RealInputs) \/ Overlaps(RealInputs)

SpecLatch == InitReal /\ [][NextLatch]_vars

\* chat turns, one at a time
NextAgent == Turns(AgentInputs)

SpecAgent == InitMock /\ [][NextAgent]_vars

\* every way to cancel or delete an appointment
NextCancel == Books(CodeInputs) \/ Cancels(CodeInputs) \/ Deletes(CodeInputs)

SpecCancel == InitMock /\ [][NextCancel]_vars

\* the lookups by booking id and by confirmation code
NextCode == Books(CodeInputs) \/ Cancels(CodeInputs) \/ Lookups(CodeInputs)

SpecCode == InitMock /\ [][NextCode]_vars

\* the slot grid of every working-hours configuration
NextSlots == Grids(HoursInputs)

SpecSlots == InitMock /\ [][NextSlots]_vars

\* availability and booking on days of every kind, in every adapter mode
NextDays == Books(DateInputs) \/ Availabilities(DateInputs)

SpecDays == Init /\ [][NextDays]_vars

\* every operation that writes the ledger, in every adapter mode
NextIds ==
    Books(IdsInputs) \/ Cancels(IdsInputs) \/ Reschedules(IdsInputs) \/ Deletes(IdsInputs)

SpecIds == Init /\ [][NextIds]_vars

\* chat turns over stored sessions, one at a time, and session deletions
NextChat == Chats(ChatInputs)

SpecChat == InitMock /\ [][NextChat]_vars

\* book, cancel and both availability checks, across restarts of the server
NextRestart ==
    Books(CodeInputs) \/ Cancels(CodeInputs) \/ Availabilities(CodeInputs) \/ Restart

SpecRestart == InitMock /\ [][NextRestart]_vars

\* every operation that writes the ledger, across restarts of the server
NextSave ==
    Books(SaveInputs) \/ Cancels(SaveInputs) \/ Reschedules(SaveInputs) \/ Restart

SpecSave == InitMock /\ [][NextSave]_vars

\* book requests that overlap in time, in every adapter mode
NextRace == Statuses(RaceInputs) \/ Books(RaceInputs) \/ Races(RaceInputs)

SpecRace == Init /\ [][NextRace]_vars

\* chat requests that overlap in time
NextTalk == Talks(TalkInputs)

SpecTalk == InitMock /\ [][NextTalk]_vars

\* start times late in the evening
NextLate == Books(LateInputs) \/ Cancels(LateInputs) \/ Reschedules(LateInputs)

SpecLate == InitMock /\ [][NextLate]_vars

(***************************************************************************)
(* Properties.  Intervals are compared as times of day, in minutes.        *)
(***************************************************************************)
Start(a) == _parse_time(a.start_time)
End(a) == _parse_time(a.end_time)

\* the last record of a ledger, the one a booking appends
Last(appts) == appts[Len(appts)]

\* the step was a booking request that returned a confirmation
Booked == result'.op \in {"book_tool", "book_rest"} /\ result'.outcome = "confirmed"

\* a record as its booking left it: not cancelled, not rescheduled since
AsBooked(a) == a.status = "confirmed" /\ ~a.rescheduled_at

\* the time of day lies in the [start, end) interval of the record
Inside(time, a) == Start(a) <= _parse_time(time) /\ _parse_time(time) < End(a)

\* the slot list holds a slot that starts at the time text
Lists(slots, time) == \E n \in 1..Len(slots) : slots[n].start_time = time

\* C1: in every ledger reachable by book, cancel and reschedule requests, two
\* distinct non-cancelled appointments on the same date have non-overlapping
\* [start_time, end_time) intervals.
C1_NoOverlap ==
    \A j, k \in 1..Len(appointments) :
        (/\ j < k
         /\ appointments[j].date = appointments[k].date
         /\ appointments[j].status # "cancelled"
         /\ appointments[k].status # "cancelled")
        => ~(Start(appointments[j]) < End(appointments[k])
             /\ Start(appointments[k]) < End(appointments[j]))

\* C2: after a successful book at (date, start), with no cancel or reschedule of
\* it since, get_availability for that date and any appointment type returns no
\* slot whose start lies inside the booked [start, end) interval.
C2_BookedSlotsNotOffered ==
    \A k \in 1..Len(appointments), t \in LocalTypes, io \in initialize :
        AsBooked(appointments[k]) =>
            LET a == get_availability(appointments, io, appointments[k].date, t, "ok", <<>>)
            IN  \A n \in 1..Len(a.available_slots) :
                    ~Inside(a.available_slots[n].start_time, appointments[k])

\* C3: a mock-path book request succeeds only if (date, start_time) is one of the
\* slots get_availability reports for that date and type in the ledger state the
\* request meets: never on a past, blocked or closed date or off the slot grid.
C3_BookOnlyOfferedSlots ==
    [][(Booked /\ Last(appointments').source = "mock") =>
            LET a == Last(appointments')
            IN  Lists(_get_availability_mock(appointments, a.date,
                                             a.appointment_type).available_slots,
                      a.start_time)]_vars

\* C4: a book request that fails (unknown type, slot unavailable, patient data
\* rejected by the tool) returns an error outcome, which the tool returns and does
\* not raise, and leaves the ledger and the persisted file as they were.
C4_FailedBookLeavesLedger ==
    [][(result'.op \in {"book_tool", "book_rest"} /\ result'.outcome # "confirmed") =>
            /\ result'.outcome \in {"invalid_type", "slot_unavailable", "bad_patient", "bad_time"}
            /\ result'.booking_id = NoId
            /\ (result'.op = "book_tool" => ~result'.raised)
            /\ appointments' = appointments
            /\ appointments_file' = appointments_file]_vars

\* a booking tool call was refused for a taken slot, over a ledger that is on file
C4_Witness ==
    /\ result.op = "book_tool"
    /\ result.outcome = "slot_unavailable"
    /\ ~result.raised
    /\ Len(appointments) = 1
    /\ appointments_file = appointments

\* C5: the availability tool and the booking tool act on one ledger: once the
\* book_appointment tool has succeeded for (date, start, type), a
\* check_availability tool call for that date and type no longer lists the start.
C5_ToolsShareLedger ==
    [][(result'.op = "book_tool" /\ result'.outcome = "confirmed") =>
            LET a == Last(appointments')
            IN  ~Lists(Api_get_availability(api_appointments', a.date,
                                            a.appointment_type).available_slots,
                       a.start_time)]_vars

\* the step is a book request for req that drew the confirmation code and succeeded
BookedAs(req, code) ==
    /\ \E reply \in {"ok", "api_error"}, uuid \in {7} :
            BookTool(req, reply, code, uuid) \/ BookRest(req, reply, code, uuid)
    /\ result'.outcome = "confirmed"

\* C6: round trip: after a successful book, the lookup by the returned booking id
\* returns a record whose type, date, start time, patient and reason equal the
\* request, and the lookup by the returned confirmation code, in either letter
\* case, returns that same record.
C6_RoundTrip ==
    [][\A req \in CodeInputs.requests, code \in CodeInputs.codes :
            BookedAs(req, code) =>
                LET k == get_appointment(appointments', result'.booking_id)
                IN  /\ k # 0
                    /\ appointments'[k].appointment_type = req.appointment_type
                    /\ appointments'[k].date = req.date
                    /\ appointments'[k].start_time = req.start_time
                    /\ appointments'[k].patient = req.patient
                    /\ appointments'[k].reason = req.reason
                    /\ \A upper \in BOOLEAN :
                            get_appointment_by_confirmation(
                                appointments', Code(result'.code.code, upper)) = k]_vars

\* the step is a reschedule request for the booking id and the (date, time) target
RescheduleOf(b, to) ==
    /\ result'.booking_id = b
    /\ \/ result'.op = "reschedule_tool" /\ RescheduleTool(b, to[1], to[2])
       \/ result'.op = "reschedule_rest" /\ RescheduleRest(b, to[1], to[2])

\* a slot the type requires from the start on lies inside the interval of a
\* non-cancelled record of that date other than record k
TakenByOther(appts, k, date_str, start_time) ==
    \E j \in 1..Len(appts), i \in 0..(appointment_types[appts[k].appointment_type].slots_required - 1) :
        /\ j # k
        /\ appts[j].date = date_str
        /\ appts[j].status # "cancelled"
        /\ Inside(_add_minutes_to_time(start_time, i * appointment_slot_duration), appts[j])

\* the same for record k itself
TakenBySelf(appts, k, date_str, start_time) ==
    \E i \in 0..(appointment_types[appts[k].appointment_type].slots_required - 1) :
        /\ appts[k].date = date_str
        /\ Inside(_add_minutes_to_time(start_time, i * appointment_slot_duration), appts[k])

\* C7: rescheduling a confirmed appointment to a new (date, start) that conflicts
\* with no appointment succeeds, overwrites its date, start_time and end_time
\* (end = new start + type duration) in place, records previous_date and
\* previous_time as they were before the call, and leaves its booking id,
\* confirmation code, type, patient, status and every other record unchanged.
C7_RescheduleMoves ==
    [][\A b \in IdInputs, to \in MoveInputs.targets :
            LET k == get_appointment(appointments, b)
                old == appointments[k]
                new == appointments'[k]
            IN  /\ (/\ RescheduleOf(b, to)
                    /\ k # 0
                    /\ old.status = "confirmed"
                    /\ ~TakenByOther(appointments, k, to[1], to[2])
                    /\ ~TakenBySelf(appointments, k, to[1], to[2]))
                   => result'.outcome = "rescheduled"
                /\ (RescheduleOf(b, to) /\ result'.outcome = "rescheduled")
                   => /\ k # 0
                      /\ old.status = "confirmed"
                      /\ DOMAIN appointments' = DOMAIN appointments
                      /\ \A j \in 1..Len(appointments) : j # k => appointments'[j] = appointments[j]
                      /\ new.date = to[1]
                      /\ new.start_time = to[2]
                      /\ End(new) = (_parse_time(to[2])
                                     + appointment_types[old.appointment_type].duration)
                                    % MinutesPerDay
                      /\ new.previous_date = old.date
                      /\ new.previous_time = old.start_time
                      /\ new = [old EXCEPT !.date = new.date,
                                           !.start_time = new.start_time,
                                           !.end_time = new.end_time,
                                           !.rescheduled_at = new.rescheduled_at,
                                           !.previous_date = new.previous_date,
                                           !.previous_time = new.previous_time]
                      /\ appointments_file' = appointments']_vars

\* of two confirmed records, the one last rescheduled moved to another day
C7_Witness ==
    /\ result.outcome = "rescheduled"
    /\ Len(appointments) = 2
    /\ \E k, j \in 1..2 :
            /\ appointments[k].booking_id = result.booking_id
            /\ appointments[k].date = LaterDay
            /\ appointments[k].previous_date = OpenDay
            /\ appointments[k].status = "confirmed"
            /\ j # k
            /\ appointments[j].status = "confirmed"

\* C8: rescheduling an appointment to a (date, start) at which a slot its type
\* requires lies inside a different non-cancelled appointment's [start, end)
\* fails with the slot-unavailable error and leaves every record unchanged.
C8_RescheduleIntoTakenFails ==
    [][\A b \in IdInputs, to \in TextInputs.targets :
            LET k == get_appointment(appointments, b)
            IN  (/\ RescheduleOf(b, to)
                 /\ k # 0
                 /\ appointments[k].status = "confirmed"
                 /\ TakenByOther(appointments, k, to[1], to[2]))
                => /\ result'.outcome = "slot_unavailable"
                   /\ appointments' = appointments]_vars

\* C9: rescheduling an appointment whose status is cancelled fails with the
\* cannot-reschedule-cancelled error, whatever the target, and leaves the record
\* (and the ledger and its file) unchanged.
C9_CancelledStaysPut ==
    [][LET k == get_appointment(appointments, result'.booking_id)
       IN  (/\ result'.op \in {"reschedule_tool", "reschedule_rest"}
            /\ k # 0
            /\ appointments[k].status = "cancelled")
           => /\ result'.outcome = "cannot_reschedule_cancelled"
              /\ result'.raised = (result'.op = "reschedule_rest")
              /\ appointments' = appointments
              /\ appointments_file' = appointments_file]_vars

\* a reschedule request for a cancelled record was refused
C9_Witness ==
    /\ result.op = "reschedule_tool"
    /\ result.outcome = "cannot_reschedule_cancelled"
    /\ \E k \in 1..Len(appointments) :
            /\ appointments[k].booking_id = result.booking_id
            /\ appointments[k].status = "cancelled"
            /\ ~appointments[k].rescheduled_at

\* the ledger without record k
Without(appts, k) == SubSeq(appts, 1, k - 1) \o SubSeq(appts, k + 1, Len(appts))

\* C10: the reschedule availability check leaves the record being rescheduled
\* out of its conflict set: a move of a confirmed appointment to a target that
\* only its own current [start, end) covers succeeds.
C10_RescheduleIgnoresSelf ==
    [][\A b \in IdInputs, to \in SlotInputs.targets :
            LET k == get_appointment(appointments, b)
            IN  (/\ RescheduleOf(b, to)
                 /\ k # 0
                 /\ appointments[k].status = "confirmed"
                 /\ _is_slot_available(Without(appointments, k), to[1], to[2],
                        appointment_types[appointments[k].appointment_type].slots_required))
                => result'.outcome = "rescheduled"]_vars

\* the step is a cancel request, through any entry point, for ledger record k
CancelOf(k) ==
    /\ result'.op \in {"cancel_tool", "cancel_rest", "delete_appointment"}
    /\ k = get_appointment(appointments, result'.booking_id)

\* C11: cancel is idempotent on the cancellation timestamp: through every cancel
\* entry point, a cancel of an already-cancelled appointment leaves its
\* cancelled_at as the first cancel set it.
C11_CancelKeepsTimestamp ==
    [][\A k \in 1..Len(appointments) :
            (CancelOf(k) /\ appointments[k].status = "cancelled" /\ k <= Len(appointments'))
            => appointments'[k].cancelled_at = appointments[k].cancelled_at]_vars

\* C12: DELETE /cancel/{booking_id} for an appointment that is already cancelled
\* is rejected with a client error and does not modify the record.
C12_CancelAgainRejected ==
    [][\A k \in 1..Len(appointments) :
            (CancelOf(k) /\ result'.op = "cancel_rest" /\ appointments[k].status = "cancelled")
            => /\ result'.raised
               /\ appointments' = appointments]_vars

\* C13: DELETE /appointments/{booking_id} with permanent=true of an existing
\* appointment removes the record: the lookup by its id then reports not-found,
\* the ledger holds one record fewer and every other record is unchanged.
C13_HardDeleteRemoves ==
    [][\A k \in 1..Len(appointments) :
            (/\ CancelOf(k)
             /\ result'.op = "delete_appointment"
             /\ \E reply \in CodeInputs.replies :
                    DeleteAppointment(appointments[k].booking_id, TRUE, reply))
            => /\ get_appointment(appointments', appointments[k].booking_id) = 0
               /\ appointments' = Without(appointments, k)]_vars

\* C14: mode determination on first use: without credentials the adapter is MOCK
\* and no provider call is made; with credentials the mode is MOCK when the probe
\* or the event-type-mapping step fails, and REAL when both succeed.
C14_ModeOnFirstUse ==
    [][\A probe \in ProbeReplies, mapping \in {"ok", "fail"} :
            (~_initialized /\ result'.op = "get_status" /\ GetStatus(probe, mapping))
            => /\ mode' = IF is_configured /\ probe = "ok" /\ mapping = "ok"
                          THEN "real" ELSE "mock"
               /\ ~is_configured => result'.calls = 0]_vars

\* the step is a booking of req, by either entry point, during which the
\* provider raised an error
BookFailsAtProvider(req) ==
    /\ mode = "real"
    /\ req.appointment_type \in _event_type_map
    /\ IsTimeStr(req.start_time)
    /\ result'.op \in {"book_tool", "book_rest"}
    /\ \E code \in RealInputs.codes, uuid \in RealInputs.uuids :
           \/ BookTool(req, "api_error", code, uuid)
           \/ BookRest(req, "api_error", code, uuid)

\* C15: when the adapter is in REAL mode and the provider raises an error during
\* book, the adapter is in FALLBACK when the call returns and the mock path
\* completes the request in that call: given the slot is free locally the caller
\* receives a confirmed booking, not the error, and exactly one record is appended.
C15_ProviderErrorFallsBack ==
    [][\A req \in RealInputs.requests :
            BookFailsAtProvider(req)
            => /\ mode' = "fallback"
               /\ _is_slot_available(appointments, req.date, req.start_time,
                                     appointment_types[req.appointment_type].slots_required)
                  => /\ result'.outcome = "confirmed"
                     /\ ~result'.raised
                     /\ Len(appointments') = Len(appointments) + 1
                     /\ SubSeq(appointments', 1, Len(appointments)) = appointments
                     /\ Last(appointments').source = "mock"
                     /\ Last(appointments').booking_id = result'.booking_id
                     /\ Last(appointments').status = "confirmed"
                     /\ Last(appointments').appointment_type = req.appointment_type
                     /\ Last(appointments').date = req.date
                     /\ Last(appointments').start_time = req.start_time]_vars

C15_Witness ==
    /\ mode = "fallback"
    /\ result.op \in {"book_tool", "book_rest"}
    /\ result.outcome = "confirmed"
    /\ result.calls \in {1, 3}
    /\ Last(appointments).source = "mock"
    /\ Last(appointments).appointment_type \in _event_type_map

\* C16: every REAL-mode operation (get_availability, book, cancel,
\* get_next_available_dates) during which the provider raises an error leaves the
\* adapter in FALLBACK when it returns.
C16_ProviderErrorLeavesFallback ==
    [][( /\ mode = "real"
         /\ \/ \E req \in RealInputs.requests : BookFailsAtProvider(req)
            \/ /\ result'.op = "get_availability"
               /\ \E to \in RealInputs.targets, t \in _event_type_map, ps \in RealInputs.slots :
                      GetAvailability(to[1], t, "api_error", ps)
            \/ /\ result'.op = "get_next_available_dates"
               /\ \E t \in _event_type_map, days \in RealInputs.days, ps \in RealInputs.slots :
                      GetNextAvailableDates(t, days, 0, ps)
            \/ /\ result'.op \in {"cancel_tool", "cancel_rest"}
               /\ \E k \in 1..Len(appointments) :
                      /\ k = get_appointment(appointments, appointments[k].booking_id)
                      /\ appointments[k].source = "calendly"
                      /\ appointments[k].status = "confirmed"
                      /\ \/ CancelTool(appointments[k].booking_id, "api_error")
                         \/ \E why \in RealInputs.reasons :
                                CancelRest(appointments[k].booking_id, why, "api_error") )
       => mode' = "fallback"]_vars

\* C17: FALLBACK is a one-way latch: in every execution, overlapping initialize()
\* calls included, once the mode is FALLBACK it stays FALLBACK and no later
\* operation calls the provider.
C17_FallbackLatch ==
    [][mode = "fallback" => (mode' = "fallback" /\ result'.calls = 0)]_vars

\* the model replies that still ask for tools
ToolReplies == AgentInputs.llm_replies \ {<<>>}

ApologyReturned == Returned("apology", max_iterations, FALSE, <<>>, "max_iterations_reached")

\* C18: process_message ends within the round cap: whatever the model replies it
\* runs at most 5 rounds and makes at most 10 model calls, and when the fifth
\* round still has no tool-free reply it returns the fixed apology with
\* metadata.error = "max_iterations_reached"; it neither raises nor starts a
\* sixth round.
C18_RoundCap ==
    [][/\ agent'.iterations <= max_iterations
       /\ agent'.llm_calls <= 2 * max_iterations
       /\ agent'.returned.response # "exception"
       /\ \A tool_calls \in ToolReplies :
              (agent.iterations = max_iterations /\ WrapUp(tool_calls))
              => (agent'.pc = "idle" /\ agent'.returned = ApologyReturned)]_vars

C18_Witness ==
    /\ agent.pc = "idle"
    /\ agent.returned = ApologyReturned
    /\ agent.iterations = max_iterations
    /\ agent.llm_calls = 2 * max_iterations

\* C19: when the reply to the wrap-up call (the one made without tool schema)
\* still has tool calls, the orchestrator aborts there: no further model call,
\* no further tool, and the apology with the max_iterations_reached flag.
C19_WrapUpWithToolsAborts ==
    [][\A tool_calls \in ToolReplies :
            WrapUp(tool_calls)
            => /\ agent'.pc = "idle"
               /\ agent'.returned.response = "apology"
               /\ agent'.returned.error = "max_iterations_reached"]_vars

\* C20: tool dispatch never raises into the loop: a call of an unregistered name
\* and a call whose handler raises (wrong arguments included) both give the
\* structured error payload, which is appended as that call's tool result, and
\* the turn goes on; every executed call appends exactly its own result.
C20_DispatchNeverRaises ==
    [][(agent.pc = "tools" /\ agent' # agent)
       => LET tool_call == agent.tool_calls[agent.next]
          IN  /\ agent'.pc \in {"tools", "wrap_up"}
              /\ agent'.returned = agent.returned
              /\ Len(agent'.tool_results) = Len(agent.tool_results) + 1
              /\ SubSeq(agent'.tool_results, 1, Len(agent.tool_results)) = agent.tool_results
              /\ Last(agent'.tool_results).tool_call_id = tool_call.id
              /\ (tool_call.name \notin tool_functions \/ ~tool_call.well_formed)
                 => /\ Last(agent'.tool_results).content = "error"
                    /\ UNCHANGED service_vars]_vars

C20_Witness ==
    /\ agent.pc = "wrap_up"
    /\ agent.tool_calls[1].name \notin tool_functions
    /\ ~agent.tool_calls[2].well_formed
    /\ agent.tool_results = <<[tool_call_id |-> 1, content |-> "error"],
                              [tool_call_id |-> 2, content |-> "error"]>>

\* C21: every tool named in the schema offered to the model is dispatched to its
\* handler: a tool call of the model naming one of them, with arguments that
\* bind, runs the handler and never yields the unknown-tool error payload.
C21_SchemaToolsDispatched ==
    [][(agent.pc = "tools" /\ agent' # agent)
       => LET tool_call == agent.tool_calls[agent.next]
          IN  (tool_call.name \in tools /\ tool_call.well_formed)
              => /\ Len(agent'.tool_results) = Len(agent.tool_results) + 1
                 /\ Last(agent'.tool_results).content # "error"]_vars

\* C22: for every working-hours configuration, _generate_time_slots returns a
\* strictly increasing grid in which every slot's interval [start, start + 30)
\* lies within [opening, closing] and does not intersect the lunch interval; for
\* 09:00-17:00 with lunch 12:00-13:00 the grid has 11:30 and 13:00 and has
\* neither 12:00 nor 12:30.
C22_GridWithinHours ==
    slot_grid # NoGrid
        => LET wh == slot_grid.wh
               slots == slot_grid.slots
               At(k) == _parse_time(slots[k])
               InGrid(time) == \E k \in 1..Len(slots) : slots[k] = time
           IN  /\ slot_grid.done
               /\ \A k \in 1..(Len(slots) - 1) : At(k) < At(k + 1)
               /\ \A k \in 1..Len(slots) :
                      /\ _parse_time(wh.start) <= At(k)
                      /\ At(k) + appointment_slot_duration <= _parse_time(wh.end)
                      /\ wh.lunch.start # NoTime
                            => \/ At(k) + appointment_slot_duration
                                     <= _parse_time(wh.lunch.start)
                               \/ At(k) >= _parse_time(wh.lunch.end)
               /\ wh = Weekday
                     => /\ InGrid(T(11, 30)) /\ InGrid(T(13, 0))
                        /\ ~InGrid(T(12, 0)) /\ ~InGrid(T(12, 30))

\* C23: every slot get_availability returns for an appointment type can hold an
\* appointment of that type: [start, start + duration of the type) does not
\* cross the start of lunch and does not extend past the closing time.
C23_OfferedSlotsFitType ==
    [][\A to \in TextInputs.targets, t \in TextInputs.types :
          (/\ result'.op = "get_availability"
           /\ result'.outcome = "ok"
           /\ GetAvailability(to[1], t, "ok", <<>>))
          => LET wh == _get_working_hours(to[1])
                 duration == appointment_types[t].duration
             IN  \A k \in 1..Len(result'.slots) :
                     LET start == _parse_time(result'.slots[k].start_time)
                     IN  /\ start + duration <= _parse_time(wh.end)
                         /\ \/ start + duration <= _parse_time(wh.lunch.start)
                            \/ start >= _parse_time(wh.lunch.end)]_vars

\* C24: for a catalog appointment type, get_availability returns an empty slot
\* list (total_available = 0), and never an error, whenever the date is before
\* today, is in blocked_dates or falls on a closed weekday, whatever the ledger
\* contains.
C24_NoSlotsOnUnavailableDays ==
    [][\A to \in DateInputs.targets, t \in DateInputs.types \cap DOMAIN appointment_types,
         reply \in DateInputs.replies, ps \in DateInputs.slots :
          (/\ result'.op = "get_availability"
           /\ \/ ParseDate(to[1]) < Today
              \/ to[1] \in blocked_dates
              \/ _get_working_hours(to[1]) = Closed
           /\ GetAvailability(to[1], t, reply, ps))
          => /\ ~result'.raised
             /\ result'.outcome = "ok"
             /\ result'.slots = <<>>]_vars

\* C25: get_availability and book called with an appointment type that is not in
\* the catalog fail with the invalid-appointment-type error, whatever the date
\* and the adapter mode: no availability list is returned, no booking is made,
\* and the ledger and its file stay as they were.
C25_UnknownTypeIsAnError ==
    [][/\ \A to \in DateInputs.targets, t \in DateInputs.types \ DOMAIN appointment_types,
            reply \in DateInputs.replies, ps \in DateInputs.slots :
             (result'.op = "get_availability" /\ GetAvailability(to[1], t, reply, ps))
             => /\ result'.raised
                /\ result'.outcome = "invalid_type"
                /\ result'.slots = <<>>
                /\ UNCHANGED <<appointments, appointments_file>>
       /\ \A req \in DateInputs.requests, reply \in DateInputs.replies,
            code \in DateInputs.codes, uuid \in DateInputs.uuids :
             (/\ req.appointment_type \notin DOMAIN appointment_types
              /\ result'.op \in {"book_tool", "book_rest"}
              /\ BookTool(req, reply, code, uuid) \/ BookRest(req, reply, code, uuid))
             => /\ result'.outcome = "invalid_type"
                /\ result'.booking_id = NoId
                /\ UNCHANGED <<appointments, appointments_file>>]_vars

\* an unknown type was refused by an adapter that had left REAL mode for it and
\* whose ledger holds a booking
C25_Witness ==
    /\ result.op \in {"get_availability", "book_rest"}
    /\ result.outcome = "invalid_type"
    /\ mode = "fallback"
    /\ appointments # <<>>

\* C26: booking ids are unique and monotonic: in every ledger reached from the
\* empty one by book, cancel, reschedule and delete operations no two records
\* share a booking id, and the sequence number of a mock-path id is greater than
\* that of every mock-path id created before it.
C26_BookingIdsUnique ==
    \A i, j \in 1..Len(appointments) :
        i < j => /\ appointments[i].booking_id # appointments[j].booking_id
                 /\ (/\ appointments[i].booking_id.prefix = "APPT"
                     /\ appointments[j].booking_id.prefix = "APPT")
                    => appointments[i].booking_id.num < appointments[j].booking_id.num

\* C27: a successful /chat turn changes its session only by appending the turn:
\* the history stored for the session after the turn is the history stored
\* before it followed by exactly the user message and the assistant reply, and
\* the response carries the session id of the request (a fresh one when the
\* request had none).
C27_ChatAppendsTurn ==
    [][(chat # NoChat /\ result'.op = "chat" /\ ~result'.raised)
       => LET sid == result'.session_id
              before == IF sid \in DOMAIN sessions THEN sessions[sid] ELSE <<>>
          IN  /\ sid = IF chat.requested = "none" THEN chat.session_id ELSE chat.requested
              /\ sid # "none"
              /\ sid \in DOMAIN sessions'
              /\ sessions'[sid] = before \o <<ChatMessage("user", chat.message),
                                              ChatMessage("assistant", result'.outcome)>>]_vars

\* C28: the metadata of a final reply reports tool use truthfully: it carries
\* the round count, used_tools is true exactly when a tool call was executed
\* during the turn, in whatever round, and tool_calls names every tool call
\* executed during the turn.
C28_MetadataTruthful ==
    (agent.pc = "idle" /\ agent.returned.response = "content")
        => /\ agent.returned.iterations = agent.iterations
           /\ agent.returned.used_tools <=> agent.executed # {}
           /\ agent.executed
                 \subseteq {agent.returned.tool_calls[k] :
                               k \in 1..Len(agent.returned.tool_calls)}

\* C29: the adapter mode becomes FALLBACK only through a provider error raised
\* in an operation that started in REAL mode: the operation ran in REAL mode
\* (from the start, or from the initialization it began with) and the provider
\* received a request of the operation itself, beyond those of initialization.
\* An adapter in MOCK mode never becomes FALLBACK, and a failure during
\* initialization never yields FALLBACK.
C29_FallbackOnlyByProviderError ==
    [][(mode' = "fallback" /\ mode # "fallback")
       => /\ mode = "real" \/ ~_initialized
          /\ result'.calls > IF _initialized THEN 0 ELSE 2]_vars

\* C30: only non-cancelled appointments block availability: once appointment A
\* is cancelled, and unless another non-cancelled appointment covers A's former
\* start time, every availability check for A's date and type lists that time
\* again, the adapter's as well as the one behind the check_availability tool,
\* and a book request for the slot succeeds.
C30_CancelledDoNotBlock ==
    [][\A k \in 1..Len(appointments) :
          LET A == appointments[k]
              Covered == \E j \in 1..Len(appointments) :
                             /\ j # k
                             /\ appointments[j].status # "cancelled"
                             /\ appointments[j].date = A.date
                             /\ Inside(A.start_time, appointments[j])
          IN  (A.status = "cancelled" /\ ~Covered)
              => /\ (/\ result'.op = "get_availability"
                     /\ \E reply \in CodeInputs.replies, ps \in CodeInputs.slots :
                            GetAvailability(A.date, A.appointment_type, reply, ps))
                    => result'.outcome = "ok" /\ Lists(result'.slots, A.start_time)
                 /\ (/\ result'.op = "check_availability_tool"
                     /\ CheckAvailabilityTool(A.date, A.appointment_type))
                    => result'.outcome = "ok" /\ Lists(result'.slots, A.start_time)
                 /\ \A req \in CodeInputs.requests, reply \in CodeInputs.replies,
                       code \in CodeInputs.codes, uuid \in CodeInputs.uuids :
                        (/\ req.date = A.date
                         /\ req.start_time = A.start_time
                         /\ req.appointment_type = A.appointment_type
                         /\ result'.op \in {"book_tool", "book_rest"}
                         /\ BookTool(req, reply, code, uuid)
                               \/ BookRest(req, reply, code, uuid))
                        => result'.outcome = "confirmed"]_vars

\* C31: within one model round the tool calls are executed one at a time in the
\* order the model listed them: the assistant turn with the tool calls is in the
\* transcript first, every pass executes the next call of the list and appends
\* its one result with the call's id, and the wrap-up model call is made only
\* when every call has its result, in the same order.
C31_ToolCallsInOrder ==
    [][/\ (agent.pc = "tools" /\ agent' # agent)
          => /\ agent.next = Len(agent.tool_results) + 1
             /\ agent.next <= Len(agent.tool_calls)
             /\ agent'.tool_calls = agent.tool_calls
             /\ agent'.next = agent.next + 1
             /\ agent'.llm_calls = agent.llm_calls
             /\ agent'.tool_results
                   = Append(agent.tool_results, Last(agent'.tool_results))
             /\ Last(agent'.tool_results).tool_call_id = agent.tool_calls[agent.next].id
       /\ (agent.pc # "call_llm" /\ agent'.llm_calls # agent.llm_calls)
          => /\ Len(agent.tool_results) = Len(agent.tool_calls)
             /\ \A k \in 1..Len(agent.tool_calls) :
                    agent.tool_results[k].tool_call_id = agent.tool_calls[k].id]_vars

\* two tool calls of one reply have run, first to second, and the wrap-up call
\* is next
C31_Witness ==
    /\ agent.pc = "wrap_up"
    /\ agent.tool_calls = <<ToolCall(1, "check_availability", TRUE),
                            ToolCall(2, "get_next_available_slots", TRUE)>>
    /\ agent.tool_results = <<[tool_call_id |-> 1, content |-> "success"],
                              [tool_call_id |-> 2, content |-> "success"]>>

\* C32: the ledger is persisted after every mutation: when a book, cancel or
\* reschedule operation has completed successfully the ledger file holds the
\* in-memory ledger, and a restart, which reloads the file, sees the records the
\* server had in memory.
C32_LedgerPersisted ==
    [][/\ (/\ result'.op \in {"book_tool", "book_rest", "cancel_tool", "cancel_rest",
                                "reschedule_tool", "reschedule_rest"}
           /\ result'.outcome \in {"confirmed", "cancelled", "rescheduled"})
          => appointments_file' = appointments'
       /\ result'.op = "restart" => appointments' = appointments]_vars

\* the server was restarted over a ledger with a cancelled record and a moved one
C32_Witness ==
    /\ result.op = "restart"
    /\ \E k \in 1..Len(appointments) : appointments[k].status = "cancelled"
    /\ \E k \in 1..Len(appointments) : appointments[k].rescheduled_at

\* the step appends a record made by _book_appointment_mock
MockAppend ==
    /\ Len(appointments') = Len(appointments) + 1
    /\ Last(appointments').source = "mock"

Resumed(p) ==
    /\ p \in suspended
    /\ p \notin suspended'
    /\ p.at = "process_message"

\* C34: chat requests for different session ids do not contend: the arrival of
\* a request changes no stored history, and its completion writes the history
\* it read followed by its own user/assistant pair to its own session and
\* leaves the history of every other session as it was.  Requests for one
\* session id do contend: the completion writes over whatever the session holds
\* by then, so a pair stored meanwhile by another request is lost.
C34_SessionsDoNotContend ==
    [][/\ \A sid \in DOMAIN sessions :
            (\A p \in suspended : Resumed(p) => p.session_id # sid)
                => (sid \in DOMAIN sessions' /\ sessions'[sid] = sessions[sid])
       /\ \A p \in suspended :
            (Resumed(p) /\ ~result'.raised /\ p.session_id \in DOMAIN sessions)
                => /\ Len(sessions'[p.session_id]) = Len(p.conversation_history) + 2
                   /\ SubSeq(sessions'[p.session_id], 1, Len(p.conversation_history))
                          = p.conversation_history
                   /\ sessions'[p.session_id][Len(p.conversation_history) + 1]
                          = ChatMessage("user", p.message)
                   /\ sessions'[p.session_id][Len(p.conversation_history) + 2].role
                          = "assistant"]_vars

\* two requests for one session were in flight together and both were
\* answered: the save of the second wrote over the pair of the first, and the
\* stored history holds the second pair only
C34_Witness ==
    /\ suspended = {}
    /\ result.op = "chat"
    /\ result.index = 2
    /\ ~result.raised
    /\ result.replaced = <<ChatMessage("user", "first"), ChatMessage("assistant", "Sure")>>
    /\ sessions[result.session_id]
           = <<ChatMessage("user", "second"), ChatMessage("assistant", "Sure")>>

\* C35: a cancelled appointment stays cancelled and keeps its schedule: in
\* every step, a record of the ledger whose status is cancelled is at the same
\* place of the ledger afterwards, with status cancelled and the same booking
\* id, date, start time and end time.
C35_CancelledIsFrozen ==
    [][\A k \in 1..Len(appointments) :
            appointments[k].status = "cancelled"
                => /\ k <= Len(appointments')
                   /\ appointments'[k].status = "cancelled"
                   /\ appointments'[k].booking_id = appointments[k].booking_id
                   /\ appointments'[k].date = appointments[k].date
                   /\ appointments'[k].start_time = appointments[k].start_time
                   /\ appointments'[k].end_time = appointments[k].end_time]_vars

\* a reschedule was asked for a cancelled appointment and was refused
C35_Witness ==
    /\ result.op \in {"reschedule_tool", "reschedule_rest"}
    /\ result.outcome = "cannot_reschedule_cancelled"
    /\ \E k \in 1..Len(appointments) :
            /\ appointments[k].booking_id = result.booking_id
            /\ appointments[k].status = "cancelled"
            /\ appointments[k].date = OpenDay

\* C36: invalid input does not degrade the adapter: in REAL mode a
\* get_availability or book request whose appointment type is not in the
\* catalog returns the invalid-type error and leaves the mode REAL.
C36_InvalidTypeKeepsReal ==
    [][/\ \A to \in DateInputs.targets, t \in DateInputs.types \ DOMAIN appointment_types,
            reply \in DateInputs.replies, ps \in DateInputs.slots :
             (/\ mode = "real"
              /\ result'.op = "get_availability"
              /\ GetAvailability(to[1], t, reply, ps))
             => (result'.outcome = "invalid_type" /\ mode' = "real")
       /\ \A req \in DateInputs.requests, reply \in DateInputs.replies,
            code \in DateInputs.codes, uuid \in DateInputs.uuids :
             (/\ mode = "real"
              /\ req.appointment_type \notin DOMAIN appointment_types
              /\ result'.op \in {"book_tool", "book_rest"}
              /\ BookTool(req, reply, code, uuid) \/ BookRest(req, reply, code, uuid))
             => (result'.outcome = "invalid_type" /\ mode' = "real")]_vars

\* C37: every record written by book or reschedule ends its type's duration
\* after it starts, on the same day: end_time is start_time plus the duration
\* in minutes, and start_time < end_time, so no stored interval wraps past
\* midnight.
C37_EndAfterStartSameDay ==
    \A k \in 1..Len(appointments) :
        appointments[k].appointment_type \in DOMAIN appointment_types
            => /\ End(appointments[k])
                     = Start(appointments[k])
                           + appointment_types[appointments[k].appointment_type].duration
               /\ Start(appointments[k]) < End(appointments[k])

\* C38: slot-grid generation terminates: for every working-hours configuration
\* with opening < closing, with or without lunch, aligned with the grid or not,
\* closing less than one slot before midnight included, the loop of
\* _generate_time_slots returns, and what it returns is a finite list.
C38_GridGenerationTerminates ==
    (slot_grid # NoGrid /\ _parse_time(slot_grid.wh.start) < _parse_time(slot_grid.wh.end))
        => /\ slot_grid.done
           /\ Len(slot_grid.slots) <= MinutesPerDay \div appointment_slot_duration

====
